---- MODULE Spec2Model ----
(***************************************************************************)
(* Model of grdblend (src/src/grdblend.c): the registry of input tiles    *)
(* built by grdblend_init_blend_job and the row-major scan of GMT_grdblend *)
(* (grdblend_sync_input_rows, the per-node tile loop, GMT_Put_Row and the  *)
(* end-of-run release of the tile list).                                   *)
(*                                                                         *)
(* Units.  Coordinates are integers counting HALF output increments, so    *)
(* the output increment is 2 and a coordinate off the output lattice is an *)
(* odd number.  Grid values and weights are exact rationals <<n, d>> with  *)
(* d > 0 in lowest terms; <<0, 0>> is NaN.  The float casts of the source  *)
(* are not modelled (all sums are exact).                                  *)
(***************************************************************************)
EXTENDS Integers, Sequences, FiniteSets, TLC

(***************************************************************************)
(* Bounds of the model.                                                    *)
(***************************************************************************)
\* Width and height of the output region, in output increments.
NX == 2
NY == 2
\* Largest number of tiles in the blend list.
MaxTiles == 2

(***************************************************************************)
(* Program constants.                                                      *)
(***************************************************************************)
BLEND_UPPER == 0
BLEND_LOWER == 1
BLEND_FIRST == 2
BLEND_LAST == 3
GMT_GRID_NODE_REG == 0
GMT_GRID_PIXEL_REG == 1
\* The error codes grdblend returns.  Their values are set outside
\* grdblend.c; the model uses only that GMT_NOERROR is 0 and that the others
\* are positive and differ.
GMT_NOERROR == 0
GMT_DATA_READ_ERROR == 9
GMT_GRID_READ_ERROR == 18
GMT_GRDIO_SEEK_FAILED == 35
GMT_RUNTIME_ERROR == 79

(***************************************************************************)
(* Numbers: exact rationals and NaN.                                       *)
(***************************************************************************)
NaN == <<0, 0>>

IsNaN(x) == x[2] = 0

Abs(n) == IF n < 0 THEN -n ELSE n

RECURSIVE GCD(_, _)
GCD(a, b) == IF b = 0 THEN a ELSE GCD(b, a % b)

\* n/d in lowest terms with a positive denominator; d = 0 gives NaN.
Norm(n, d) ==
    IF d = 0 THEN NaN
    ELSE LET g == GCD(Abs(n), Abs(d))
             s == IF d < 0 THEN -1 ELSE 1
         IN  <<(s * n) \div g, Abs(d) \div g>>

Rat(n) == <<n, 1>>

RAdd(x, y) ==
    IF IsNaN(x) \/ IsNaN(y) THEN NaN
    ELSE LET g == GCD(x[2], y[2])
         IN  Norm(x[1] * (y[2] \div g) + y[1] * (x[2] \div g), x[2] * (y[2] \div g))

RNeg(x) == IF IsNaN(x) THEN NaN ELSE <<-x[1], x[2]>>

RSub(x, y) == RAdd(x, RNeg(y))

RMul(x, y) ==
    IF IsNaN(x) \/ IsNaN(y) THEN NaN
    ELSE LET g1 == GCD(Abs(x[1]), y[2])
             g2 == GCD(Abs(y[1]), x[2])
             a == IF g1 = 0 THEN 1 ELSE g1
             b == IF g2 = 0 THEN 1 ELSE g2
         IN  Norm((x[1] \div a) * (y[1] \div b), (x[2] \div b) * (y[2] \div a))

\* x / y for y # 0 (the source divides by the weight sum only when it is
\* not 0.0); a zero divisor gives NaN here.
RDiv(x, y) ==
    IF IsNaN(x) \/ IsNaN(y) \/ y[1] = 0 THEN NaN
    ELSE RMul(x, Norm(y[2], y[1]))

\* C comparisons: every comparison with a NaN operand is false.
RLess(x, y) ==
    /\ ~IsNaN(x)
    /\ ~IsNaN(y)
    /\ LET g == GCD(x[2], y[2])
       IN  x[1] * (y[2] \div g) < y[1] * (x[2] \div g)

RLeq(x, y) == ~IsNaN(x) /\ ~IsNaN(y) /\ ~RLess(y, x)

\* irint (x2 / 2): lrint rounds to nearest, ties to the even integer.
Irint2(x2) ==
    LET q == x2 \div 2
    IN  IF x2 % 2 = 0 THEN q
        ELSE IF q % 2 = 0 THEN q ELSE q + 1

(***************************************************************************)
(* The cosine taper 0.5 * (1 - cos (a)), for a a multiple k of pi/12,     *)
(* in twentieths: exact where the cosine is rational (k = 0, 4, 6, 8, 12), *)
(* rounded to the nearest twentieth elsewhere.                             *)
(***************************************************************************)
TaperTable == <<0, 0, 1, 3, 5, 7, 10, 13, 15, 17, 19, 20, 20>>

\* 0.5 * (1.0 - cos (d2/2 * M_PI * 2 / gap2)): d2 is twice the distance
\* (in nodes, plus xy_off) from the outer edge and gap2 the coordinate gap
\* between inner and outer edge.  A zero gap makes the coefficient
\* infinite and the cosine NaN.
CosTaper(d2, gap2) ==
    IF gap2 = 0 THEN NaN
    ELSE LET k  == ((12 * Abs(d2)) \div Abs(gap2)) % 24
             kk == IF k > 12 THEN 24 - k ELSE k
         IN  Norm(TaperTable[kk + 1], 20)

(***************************************************************************)
(* Grid headers.  h.wesn is the region, h.registration the registration;   *)
(* n_columns and n_rows follow from the region and the increment (2).      *)
(***************************************************************************)
Wesn(w, e, s, n) == [w |-> w, e |-> e, s |-> s, n |-> n]

\* Number of nodes along a side of length len2 (gmt_set_grddim).
GridDim(len2, registration) == Irint2(len2) + 1 - registration

Header(wesn, registration) ==
    [wesn |-> wesn, registration |-> registration,
     n_columns |-> GridDim(wesn.e - wesn.w, registration),
     n_rows |-> GridDim(wesn.n - wesn.s, registration)]

\* Twice header->xy_off, which grdblend passes on as `half'.
XYOff2(registration) == IF registration = GMT_GRID_PIXEL_REG THEN 0 ELSE 1

\* Number of output columns in 360 units of x (urint (360.0 * r_inc)).
nx_360 == 2 * NX + 2

\* 360 and 720 in half increments.
P360 == 2 * nx_360

gmt_grd_is_global(hd) == hd.wesn.e - hd.wesn.w = P360

(***************************************************************************)
(* grdblend_outside_y_range, grdblend_outside_cartesian_x_range and        *)
(* grdblend_overlap_check.                                                 *)
(***************************************************************************)
grdblend_outside_y_range(h, wesn) ==
    IF h.registration = GMT_GRID_NODE_REG
    THEN h.wesn.s > wesn.n \/ h.wesn.n < wesn.s
    ELSE h.wesn.s >= wesn.n \/ h.wesn.n <= wesn.s

grdblend_outside_cartesian_x_range(h, wesn) ==
    IF h.registration = GMT_GRID_NODE_REG
    THEN \/ h.wesn.w > wesn.e \/ h.wesn.e < wesn.w
         \/ h.wesn.s > wesn.n \/ h.wesn.n < wesn.s
    ELSE \/ h.wesn.w >= wesn.e \/ h.wesn.e <= wesn.w
         \/ h.wesn.s >= wesn.n \/ h.wesn.n <= wesn.s

\* while (e < h->wesn[XLO]) { w += 360.0; e += 360.0; shift -= 360.0; }
RECURSIVE ShiftLoop(_, _, _, _)
ShiftLoop(w, e, shift, xlo) ==
    IF e < xlo THEN ShiftLoop(w + P360, e + P360, shift - P360, xlo)
    ELSE [w |-> w, e |-> e, shift |-> shift]

\* The outcome of grdblend_overlap_check on the range [west, east] of the
\* tile header (mode 0) or of the inner region (mode 1), tile header t:
\* `ret' is the value returned (the tile is ignored), w and e the range
\* left behind.
grdblend_overlap_check(west, east, t, h) ==
    IF gmt_grd_is_global(h) \/ gmt_grd_is_global(t)
    THEN [ret |-> FALSE, w |-> west, e |-> east]
    ELSE LET r == ShiftLoop(west - 2 * P360, east - 2 * P360, 2 * P360, h.wesn.w)
         IN  IF \/ (h.registration = GMT_GRID_NODE_REG /\ r.w > h.wesn.e)
                \/ (h.registration = GMT_GRID_PIXEL_REG /\ r.w >= h.wesn.e)
             THEN [ret |-> TRUE, w |-> west, e |-> east]
             ELSE IF r.shift # 0
                  THEN [ret |-> FALSE, w |-> r.w, e |-> r.e]
                  ELSE [ret |-> FALSE, w |-> west, e |-> east]

(***************************************************************************)
(* The contents of a tile file: the value at row i, column j (from the     *)
(* north-west node) of the file whose contents are numbered `seed'.        *)
(***************************************************************************)
Vals == <<NaN, Rat(-2), Rat(-1), Rat(0), Rat(1), Rat(2)>>

TileValue(seed, i, j) == Vals[((seed + i + j) % Len(Vals)) + 1]

TileRow(seed, i, n_columns) == [j \in 1..n_columns |-> TileValue(seed, i, j - 1)]

(***************************************************************************)
(* grdblend_init_blend_job, second loop: one blend list entry L becomes    *)
(* one struct GRDBLEND_INFO.  L.t is the region in the header of the file, *)
(* L.region the inner region ("-" when none was given), L.do_sample the    *)
(* outcome of the format, increment and phase tests, and L.moved tells     *)
(* whether the file that grdsample or grdconvert wrote came back with its  *)
(* region moved (the case line 510 allows for).                            *)
(***************************************************************************)

\* gmt_M_memory zeroes the array of structs.
ZeroInfo ==
    [ignore |-> FALSE, outside |-> FALSE, invert |-> FALSE, open |-> FALSE,
     delete |-> FALSE, memory |-> FALSE,
     in_i0 |-> 0, in_i1 |-> 0, out_i0 |-> 0, out_i1 |-> 0,
     in_j0 |-> 0, in_j1 |-> 0, out_j0 |-> 0, out_j1 |-> 0,
     offset |-> 0, skip |-> 0,
     weight |-> Rat(0), wt_y |-> Rat(0),
     wxl |-> 0, wxr |-> 0, wyu |-> 0, wyd |-> 0,
     wesn |-> Wesn(0, 0, 0, 0),
     \* B.z: the row buffer; z_alloc is FALSE for a NULL or freed pointer
     z |-> <<>>, z_alloc |-> FALSE,
     \* B.RbR: allocated or not, bytes per row, rows already passed
     RbR |-> [alloc |-> FALSE, n_byte |-> 0, row |-> 0],
     \* B.G: the grid container: held or not, its header, its open file
     G |-> [live |-> FALSE, fp |-> FALSE, header |-> Header(Wesn(0, 0, 0, 0), 0)],
     \* the file behind B.file: its contents, format and whether it is a
     \* temporary file, and what has been done to it so far
     type |-> "b", seed |-> 0, temp |-> FALSE,
     \* the latest GMT_Get_Row into B.z failed
     stale |-> FALSE,
     n_open |-> 0, n_close |-> 0, n_remove |-> 0, n_zfree |-> 0, n_rbrfree |-> 0]

\* Lines 458-467: the region asked of grdsample or grdconvert for a tile
\* that is in phase: the output region clipped to the tile.
SampleRegion(h, t) ==
    Wesn(IF h.wesn.w < t.w THEN t.w ELSE h.wesn.w,
         IF h.wesn.e > t.e THEN t.e ELSE h.wesn.e,
         IF h.wesn.s < t.s THEN t.s ELSE h.wesn.s,
         IF h.wesn.n > t.n THEN t.n ELSE h.wesn.n)

\* The region in the header of the temporary file: the region asked for,
\* or that region moved east by NX + 1 increments.
TempRegion(h, t, moved) ==
    LET r == SampleRegion(h, t)
    IN  IF moved THEN Wesn(r.w + 2 * (NX + 1), r.e + 2 * (NX + 1), r.s, r.n) ELSE r

\* Geometry with the inner west and north indices one further out.
GeometryWideMargin(B, t, h) ==
    LET one_or_zero == IF h.registration = 0 THEN 1 ELSE 0
    IN  [B EXCEPT
          !.out_i0 = Irint2(t.wesn.w - h.wesn.w),
          !.in_i0  = Irint2(B.wesn.w - h.wesn.w) - 2,
          !.in_i1  = Irint2(B.wesn.e - h.wesn.w) + one_or_zero,
          !.out_i1 = Irint2(t.wesn.e - h.wesn.w) - t.registration,
          !.out_j0 = Irint2(h.wesn.n - t.wesn.n),
          !.in_j0  = Irint2(h.wesn.n - B.wesn.n) - 2,
          !.in_j1  = Irint2(h.wesn.n - B.wesn.s) + one_or_zero,
          !.out_j1 = Irint2(h.wesn.n - t.wesn.s) - t.registration,
          !.wxl = B.wesn.w - t.wesn.w,
          !.wxr = t.wesn.e - B.wesn.e,
          !.wyu = t.wesn.n - B.wesn.n,
          !.wyd = B.wesn.s - t.wesn.s]

\* Lines 527-539: index ranges and taper coefficients."  wxl, wxr, wyu and
\* wyd hold the gap the source divides M_PI * inc by.
Geometry(B, t, h) ==
    LET one_or_zero == IF h.registration = 0 THEN 1 ELSE 0
    IN  [B EXCEPT
          !.out_i0 = Irint2(t.wesn.w - h.wesn.w),
          !.in_i0  = Irint2(B.wesn.w - h.wesn.w) - 1,
          !.in_i1  = Irint2(B.wesn.e - h.wesn.w) + one_or_zero,
          !.out_i1 = Irint2(t.wesn.e - h.wesn.w) - t.registration,
          !.out_j0 = Irint2(h.wesn.n - t.wesn.n),
          !.in_j0  = Irint2(h.wesn.n - B.wesn.n) - 1,
          !.in_j1  = Irint2(h.wesn.n - B.wesn.s) + one_or_zero,
          !.out_j1 = Irint2(h.wesn.n - t.wesn.s) - t.registration,
          !.wxl = B.wesn.w - t.wesn.w,
          !.wxr = t.wesn.e - B.wesn.e,
          !.wyu = t.wesn.n - B.wesn.n,
          !.wyd = B.wesn.s - t.wesn.s]

\* Lines 541-549: what to skip when the tile starts north of the output.
SkipRows(B, t) ==
    IF B.out_j0 < 0
    THEN IF B.type = "c" THEN [B EXCEPT !.offset = t.n_columns * Abs(B.out_j0)]
         ELSE IF B.type = "n" THEN [B EXCEPT !.offset = B.out_j0]
         ELSE [B EXCEPT !.skip = B.RbR.n_byte * Abs(B.out_j0)]
    ELSE B

\* FinishTile without lines 512-515: the weight keeps its sign.
FinishTileKeepsSign(B0, h) ==
    LET t  == B0.G.header
        B2 == [B0 EXCEPT !.RbR = [alloc |-> TRUE, n_byte |-> 4 * t.n_columns, row |-> 0]]
        B3 == SkipRows(Geometry(B2, t, h), t)
        B4 == [B3 EXCEPT !.z = [j \in 1..t.n_columns |-> Rat(0)], !.z_alloc = TRUE]
    IN  IF B4.memory THEN B4
        ELSE [B4 EXCEPT !.G = [live |-> FALSE, fp |-> FALSE, header |-> t]]

\* Lines 512-564 for a tile that is not ignored.
FinishTile(B0, h) ==
    LET t  == B0.G.header
        B1 == IF RLess(B0.weight, Rat(0))
              THEN [B0 EXCEPT !.weight = RNeg(B0.weight), !.invert = TRUE]
              ELSE B0
        B2 == [B1 EXCEPT !.RbR = [alloc |-> TRUE, n_byte |-> 4 * t.n_columns, row |-> 0]]
        B3 == SkipRows(Geometry(B2, t, h), t)
        B4 == [B3 EXCEPT !.z = [j \in 1..t.n_columns |-> Rat(0)], !.z_alloc = TRUE]
    IN  IF B4.memory THEN B4
        ELSE [B4 EXCEPT !.G = [live |-> FALSE, fp |-> FALSE, header |-> t]]

\* Lines 468-511: the tile is replaced by the temporary file.
Resampled(B0, L, h) ==
    LET t  == Header(TempRegion(h, B0.G.header.wesn, L.moved), h.registration)
        B1 == [B0 EXCEPT !.delete = TRUE, !.temp = TRUE, !.type = "n",
                         !.memory = FALSE,
                         !.G = [live |-> TRUE, fp |-> TRUE, header |-> t]]
        oc == grdblend_overlap_check(t.wesn.w, t.wesn.e, t, h)
    IN  IF oc.ret THEN [B1 EXCEPT !.ignore = TRUE]
        ELSE FinishTile([B1 EXCEPT !.G.header.wesn.w = oc.w,
                                   !.G.header.wesn.e = oc.e], h)

\* Lines 420-467 decide do_sample; here it is given with the entry.
AfterOverlap(B0, L, h) ==
    IF L.do_sample # 0 THEN Resampled(B0, L, h) ELSE FinishTile(B0, h)

\* Lines 328-347 (first loop): the struct of one tile after its header has
\* been read.
ReadTile(L) ==
    [ZeroInfo EXCEPT
       !.memory = L.memory, !.type = L.type, !.seed = L.seed,
       !.G = [live |-> TRUE, fp |-> ~L.memory, header |-> Header(L.t, L.registration)],
       !.weight = Rat(L.weight),
       !.wesn = IF L.got_region THEN L.region ELSE L.t]

\* Lines 403-418: the tile is ignored when it lies outside the output
\* region; for longitudes its regions are first moved by whole turns.
Screen(B0, h, x_is_lon) ==
    LET t0 == B0.G.header
    IN  IF grdblend_outside_y_range(h, B0.wesn) THEN [B0 EXCEPT !.ignore = TRUE]
        ELSE IF x_is_lon
        THEN LET o0 == grdblend_overlap_check(t0.wesn.w, t0.wesn.e, t0, h)
                 B1 == [B0 EXCEPT !.G.header.wesn.w = o0.w, !.G.header.wesn.e = o0.e]
                 o1 == grdblend_overlap_check(B1.wesn.w, B1.wesn.e, B1.G.header, h)
                 B2 == [B1 EXCEPT !.wesn.w = o1.w, !.wesn.e = o1.e]
             IN  IF o0.ret THEN [B0 EXCEPT !.ignore = TRUE]
                 ELSE IF o1.ret THEN [B1 EXCEPT !.ignore = TRUE]
                 ELSE B2
        ELSE IF grdblend_outside_cartesian_x_range(h, B0.wesn)
             THEN [B0 EXCEPT !.ignore = TRUE]
             ELSE B0

InitTile(L, h, x_is_lon) ==
    LET B == Screen(ReadTile(L), h, x_is_lon)
    IN  IF B.ignore THEN B ELSE AfterOverlap(B, L, h)

(***************************************************************************)
(* State.                                                                  *)
(***************************************************************************)
VARIABLES
    Ctrl,       \* struct GRDBLEND_CTRL: C (active, mode, sign), W, Z
    Grid,       \* the header of the output grid
    wrap_x,     \* periodic geographic output
    no_data_f,  \* value of nodes no tile reaches
    blend,      \* the array of struct GRDBLEND_INFO
    pc,         \* where GMT_grdblend is: "sync", "node", "put", "free", "done"
    row, col,   \* the loop counters
    z,          \* the output row buffer
    n_fill,     \* nodes given a value
    n_empty,    \* nodes given no_data_f
    z_min, z_max,
    put,        \* the rows handed to GMT_Put_Row so far, in order
    job,        \* what the run was given: options, blend list, files
    L,          \* grdblend_init_blend_job: the array of struct BLEND_LIST
    n_cur,      \* grdblend_init_blend_job: the loop counter n
    not_supported,  \* grdblend_init_blend_job: the local not_supported
    status,     \* GMT_grdblend: the local status, then the value returned
    faults,     \* how many more calls of a collaborator may fail
    failed,     \* the calls that have failed so far
    wesn,       \* grdblend_init_blend_job: the local wesn of line 222
    common_inc, \* grdblend_init_blend_job: the local common_inc
    common_reg  \* grdblend_init_blend_job: the local common_reg

\* The locals of grdblend_init_blend_job and the run's surroundings.
\* The locals that serve to derive the output region when none is given.
unionvars == <<wesn, common_inc, common_reg>>

regvars == <<job, L, n_cur, not_supported, status, faults, failed, unionvars>>

vars == <<Ctrl, Grid, wrap_x, no_data_f, blend, pc, row, col, z, n_fill,
          n_empty, z_min, z_max, put, regvars>>

\* Stand-in for DBL_MAX: larger than every value of the model.
DBL_MAX == 1000

n_blend == Len(blend)

(***************************************************************************)
(* grdblend_sync_input_rows for one tile.                                  *)
(***************************************************************************)
\* RowWeight with the bottom taper starting one row early.
RowWeightEarlyTaper(B, r, half2) ==
    LET t == IF r <= B.in_j0 THEN CosTaper(2 * (r - B.out_j0) + half2, B.wyu)
             ELSE IF r >= B.in_j1 - 1 THEN CosTaper(2 * (B.out_j1 - r) + half2, B.wyd)
             ELSE Rat(1)
    IN  RMul(t, B.weight)

\* Lines 597-603: the y-weight of the tile at this row.
RowWeight(B, r, half2) ==
    LET t == IF r <= B.in_j0 THEN CosTaper(2 * (r - B.out_j0) + half2, B.wyu)
             ELSE IF r >= B.in_j1 THEN CosTaper(2 * (B.out_j1 - r) + half2, B.wyd)
             ELSE Rat(1)
    IN  RMul(t, B.weight)

\* CloseTile without line 588.
CloseTileStaysOpen(B) ==
    [B EXCEPT !.G = [live |-> FALSE, fp |-> FALSE, header |-> B.G.header],
              !.n_close = B.n_close + 1,
              !.z = <<>>, !.z_alloc = FALSE, !.n_zfree = B.n_zfree + 1,
              !.RbR.alloc = FALSE, !.n_rbrfree = B.n_rbrfree + 1,
              !.n_remove = IF B.delete THEN B.n_remove + 1 ELSE B.n_remove]

\* Lines 585-593: an open tile the scan has left is closed and released.
CloseTile(B) ==
    [B EXCEPT !.G = [live |-> FALSE, fp |-> FALSE, header |-> B.G.header],
              !.n_close = B.n_close + 1,
              !.open = FALSE,
              !.z = <<>>, !.z_alloc = FALSE, !.n_zfree = B.n_zfree + 1,
              !.RbR.alloc = FALSE, !.n_rbrfree = B.n_rbrfree + 1,
              !.n_remove = IF B.delete THEN B.n_remove + 1 ELSE B.n_remove]

\* OpenTile without lines 617-632: the file is read from its first row.
OpenTileFromTop(B) ==
    [B EXCEPT !.G = [live |-> TRUE, fp |-> TRUE, header |-> B.G.header],
              !.n_open = B.n_open + 1,
              !.RbR.row = 0,
              !.open = TRUE]

\* Lines 611-632: the first access opens the file and moves to the first
\* row inside the output region.
OpenTile(B) ==
    LET passed == IF B.skip # 0 THEN B.skip \div B.RbR.n_byte
                  ELSE IF B.type = "c" THEN B.offset \div B.G.header.n_columns
                  ELSE -B.offset
    IN  [B EXCEPT !.G = [live |-> TRUE, fp |-> TRUE, header |-> B.G.header],
                  !.n_open = B.n_open + 1,
                  !.RbR.row = passed,
                  !.open = TRUE]

\* Line 633: GMT_Get_Row reads the next row of the file into B.z.
GetRow(B) ==
    [B EXCEPT !.z = TileRow(B.seed, B.RbR.row, B.G.header.n_columns),
              !.RbR.row = B.RbR.row + 1, !.stale = FALSE]

\* CopyRow that copies the first row of the grid whatever the output row.
CopyRowTop(B, r) ==
    [B EXCEPT !.z = TileRow(B.seed, 0, B.G.header.n_columns)]

\* Lines 605-609: the row of a grid held in memory is copied.
CopyRow(B, r) ==
    [B EXCEPT !.z = TileRow(B.seed, r - B.out_j0, B.G.header.n_columns)]

\* SyncTile that closes a tile the scan has left without flagging it.
SyncTileNoFlag(B, r, half2) ==
    IF B.ignore THEN B
    ELSE IF r < B.out_j0 \/ r > B.out_j1
    THEN IF B.open THEN CloseTile(B) ELSE B
    ELSE LET B1 == [B EXCEPT !.outside = FALSE, !.wt_y = RowWeight(B, r, half2)]
         IN  IF B1.memory THEN CopyRow(B1, r)
             ELSE GetRow(IF B1.open THEN B1 ELSE OpenTile(B1))

\* SyncTile that leaves every tile as it is.
SyncTileNotWound(B, r, half2) == B

SyncTile(B, r, half2) ==
    IF B.ignore THEN B
    ELSE IF r < B.out_j0 \/ r > B.out_j1
    THEN LET B1 == [B EXCEPT !.outside = TRUE]
         IN  IF B1.open THEN CloseTile(B1) ELSE B1
    ELSE LET B1 == [B EXCEPT !.outside = FALSE, !.wt_y = RowWeight(B, r, half2)]
         IN  IF B1.memory THEN CopyRow(B1, r)
             ELSE GetRow(IF B1.open THEN B1 ELSE OpenTile(B1))

grdblend_sync_input_rows(r, Bs, half2) ==
    [k \in 1..Len(Bs) |-> SyncTile(Bs[k], r, half2)]

(***************************************************************************)
(* grdblend_sync_input_rows when a collaborator fails.  f names the call   *)
(* that fails for this tile at this row, if it is made: "destroy"          *)
(* (GMT_Destroy_Data, line 587), "open" (GMT_Read_Data, line 613), "seek"  *)
(* (fseek, line 619), "read" (GMT_Get_Row, line 633), or "none".  The      *)
(* outcome: the tile, whether the function returns here (ret) and with     *)
(* what value (status), and whether the call was made and failed.          *)
(***************************************************************************)
SyncFaults == {"none", "destroy", "open", "seek", "read"}

Went(B) == [B |-> B, ret |-> FALSE, status |-> GMT_NOERROR, failed |-> FALSE]

Broke(B, ret, code) == [B |-> B, ret |-> ret, status |-> code, failed |-> TRUE]

SyncTileFailing(B, r, half2, f) ==
    IF B.ignore THEN Went(B)
    ELSE IF r < B.out_j0 \/ r > B.out_j1
    THEN IF B.open /\ f = "destroy"
         \* line 586 has closed the file; line 587 returns GMT_NOERROR
         THEN Broke([B EXCEPT !.outside = TRUE, !.G.fp = FALSE,
                              !.n_close = B.n_close + 1], TRUE, GMT_NOERROR)
         ELSE Went(SyncTile(B, r, half2))
    ELSE LET B1 == [B EXCEPT !.outside = FALSE, !.wt_y = RowWeight(B, r, half2)]
         IN  IF B1.memory THEN Went(SyncTile(B, r, half2))
             ELSE IF ~B1.open /\ f = "open"
             \* line 613: B.G is NULL, line 614 returns
             THEN Broke([B1 EXCEPT !.G.live = FALSE, !.G.fp = FALSE], TRUE,
                        GMT_GRID_READ_ERROR)
             ELSE IF ~B1.open /\ B1.skip # 0 /\ f = "seek"
             \* lines 613-621: the file is open, B.open is not yet set
             THEN Broke([B1 EXCEPT !.G.live = TRUE, !.G.fp = TRUE,
                                   !.n_open = B1.n_open + 1], TRUE,
                        GMT_GRDIO_SEEK_FAILED)
             ELSE IF f = "read"
             \* line 633: the value of GMT_Get_Row is not looked at; B.z
             \* keeps what it held
             THEN Broke([(IF B1.open THEN B1 ELSE OpenTile(B1)) EXCEPT !.stale = TRUE],
                        FALSE, GMT_NOERROR)
             ELSE Went(SyncTile(B, r, half2))

\* The loop of lines 581-635 from tile k on, under the faults F (one per
\* tile); `failed' collects the calls that failed.
RECURSIVE SyncLoop(_, _, _, _, _, _)
SyncLoop(Bs, k, r, half2, F, bad) ==
    IF k > Len(Bs) THEN [B |-> Bs, status |-> GMT_NOERROR, failed |-> bad]
    ELSE LET s == SyncTileFailing(Bs[k], r, half2, F[k])
             Bs1 == [Bs EXCEPT ![k] = s.B]
             bad1 == IF s.failed
                     THEN bad \cup {[call |-> F[k], k |-> k, row |-> r]}
                     ELSE bad
         IN  IF s.ret THEN [B |-> Bs1, status |-> s.status, failed |-> bad1]
             ELSE SyncLoop(Bs1, k + 1, r, half2, F, bad1)

\* The faults that may strike one call of grdblend_sync_input_rows when
\* at most m more calls may fail.
FaultPlans(len, m) ==
    {F \in [1..len -> SyncFaults] : Cardinality({k \in 1..len : F[k] # "none"}) <= m}

(***************************************************************************)
(* GMT_grdblend, lines 1015-1091: the value of one output node.            *)
(***************************************************************************)
\* Lines 1022-1023: pcol = col + nx_360; while (pcol > out_i1) pcol -= nx_360.
RECURSIVE WrapCol(_, _)
WrapCol(pcol, out_i1) == IF pcol > out_i1 THEN WrapCol(pcol - nx_360, out_i1) ELSE pcol

\* The column of tile B that output column c falls on.
PCol(B, c, wrap) == IF wrap THEN WrapCol(c + nx_360, B.out_i1) ELSE c

\* Lines 1021-1029: the tile has no column for output column c.
OutsideX(B, c, wrap) ==
    LET pcol == PCol(B, c, wrap)
    IN  IF wrap THEN pcol < B.out_i0
        ELSE pcol < B.out_i0 \/ pcol > B.out_i1

\* blend[k].z[kk]; a read outside the buffer, or of a freed buffer, gives
\* whatever is there (junk).
BufRead(B, kk, junk) ==
    IF B.z_alloc /\ (kk + 1) \in DOMAIN B.z THEN B.z[kk + 1] ELSE junk

\* NodeWeight with the left taper zone one column too wide.
NodeWeightWideTaper(B, pcol, half2) ==
    LET wt_x == IF pcol <= B.in_i0 + 1
                THEN CosTaper(2 * (pcol - B.out_i0) + half2, B.wxl)
                ELSE IF pcol >= B.in_i1
                THEN CosTaper(2 * (B.out_i1 - pcol) + half2, B.wxr)
                ELSE Rat(1)
        wt == RMul(wt_x, B.wt_y)
    IN  IF B.invert THEN RSub(B.weight, wt) ELSE wt

\* NodeWeight with the right taper starting one column early.
NodeWeightTaperAtEdge(B, pcol, half2) ==
    LET wt_x == IF pcol <= B.in_i0
                THEN CosTaper(2 * (pcol - B.out_i0) + half2, B.wxl)
                ELSE IF pcol >= B.in_i1 - 1
                THEN CosTaper(2 * (B.out_i1 - pcol) + half2, B.wxr)
                ELSE Rat(1)
        wt == RMul(wt_x, B.wt_y)
    IN  IF B.invert THEN RSub(B.weight, wt) ELSE wt

\* Lines 1055-1062: the weight of tile B at column pcol.
NodeWeight(B, pcol, half2) ==
    LET wt_x == IF pcol <= B.in_i0
                THEN CosTaper(2 * (pcol - B.out_i0) + half2, B.wxl)
                ELSE IF pcol >= B.in_i1
                THEN CosTaper(2 * (B.out_i1 - pcol) + half2, B.wxr)
                ELSE Rat(1)
        wt == RMul(wt_x, B.wt_y)
    IN  IF B.invert THEN RSub(B.weight, wt) ELSE wt

\* ModeSkips without the test of BLEND_FIRST.
ModeSkipsFirstFallsThrough(C, a, v) ==
    IF C.mode = BLEND_UPPER THEN a.m # 0 /\ RLeq(v, a.z)
    ELSE IF C.mode = BLEND_LOWER THEN a.m # 0 /\ RLeq(a.z, v)
    ELSE FALSE

\* ModeSkips with the comparisons of BLEND_UPPER and BLEND_LOWER exchanged
\* and BLEND_LAST keeping what is there.
ModeSkipsExchanged(C, a, v) ==
    IF C.mode = BLEND_FIRST THEN a.m # 0
    ELSE IF C.mode = BLEND_UPPER THEN a.m # 0 /\ RLeq(a.z, v)
    ELSE IF C.mode = BLEND_LOWER THEN a.m # 0 /\ RLeq(v, a.z)
    ELSE a.m # 0

\* Lines 1034-1039: the clobber mode lets the value v pass or not.
ModeSkips(C, a, v) ==
    IF C.mode = BLEND_FIRST THEN a.m # 0
    ELSE IF C.mode = BLEND_UPPER THEN a.m # 0 /\ RLeq(v, a.z)
    ELSE IF C.mode = BLEND_LOWER THEN a.m # 0 /\ RLeq(a.z, v)
    ELSE FALSE

\* Lines 1033-1053: one contributing value under a clobber mode.
Clobber(C, a, v) ==
    LET take == [a EXCEPT !.z = v, !.w = Rat(1), !.m = 1]
    IN  IF ModeSkips(C, a, v) THEN a
        ELSE IF C.sign = -1
        THEN IF a.first_grid THEN [a EXCEPT !.z = v, !.first_grid = FALSE]
             ELSE IF RLess(Rat(0), v) THEN a ELSE take
        ELSE IF C.sign = 1
        THEN IF a.first_grid THEN [a EXCEPT !.z = v, !.first_grid = FALSE]
             ELSE IF RLess(v, Rat(0)) THEN a ELSE take
        ELSE take

\* Lines 1054-1066: one contributing value under blending.
Blend(B, a, v, pcol, half2) ==
    LET wt == NodeWeight(B, pcol, half2)
    IN  [a EXCEPT !.z = RAdd(a.z, RMul(wt, v)), !.w = RAdd(a.w, wt), !.m = a.m + 1]

\* Lines 1019-1066: the body of the loop over the tiles, for tile B.
TileStep(a, B, c, C, wrap, half2, junk) ==
    IF B.ignore \/ B.outside \/ OutsideX(B, c, wrap) THEN a
    ELSE LET pcol == PCol(B, c, wrap)
             v == BufRead(B, pcol - B.out_i0, junk)
             a1 == [a EXCEPT !.not_nan = TRUE]
         IN  IF IsNaN(v) THEN a
             ELSE IF C.active THEN Clobber(C, a1, v)
             ELSE Blend(B, a1, v, pcol, half2)

RECURSIVE TileLoop(_, _, _, _, _, _, _, _)
TileLoop(a, Bs, k, c, C, wrap, half2, junk) ==
    IF k > Len(Bs) THEN a
    ELSE TileLoop(TileStep(a, Bs[k], c, C, wrap, half2, junk), Bs, k + 1, c, C,
                  wrap, half2, junk)

\* NodeSums without line 1069.
NodeSumsNoFallback(Bs, c, ctl, wrap, half2, junk) ==
    TileLoop([z |-> Rat(0), w |-> Rat(0), m |-> 0, first_grid |-> TRUE,
              not_nan |-> FALSE], Bs, 1, c, ctl.C, wrap, half2, junk)

\* Lines 1015-1069: the sums for output column c; z starts at 0 (memset).
NodeSums(Bs, c, ctl, wrap, half2, junk) ==
    LET a0 == [z |-> Rat(0), w |-> Rat(0), m |-> 0, first_grid |-> TRUE,
               not_nan |-> FALSE]
        a == TileLoop(a0, Bs, 1, c, ctl.C, wrap, half2, junk)
    IN  IF ctl.C.sign # 0 /\ a.m = 0 /\ a.not_nan
        THEN [a EXCEPT !.m = 1, !.w = Rat(1)]
        ELSE a

out_case(ctl) == IF ctl.W.active THEN 1 + ctl.W.mode ELSE 0

\* NodeValue without the test of line 1074: the sum is always divided.
NodeValueAlwaysDivides(a, ctl) ==
    IF out_case(ctl) = 0
    THEN LET avg == RDiv(a.z, a.w)
         IN  IF ctl.Z.active THEN RMul(avg, ctl.Z.scale) ELSE avg
    ELSE IF out_case(ctl) = 1 THEN a.w
    ELSE RMul(a.z, a.w)

\* NodeValue without the division by the weight sum.
NodeValueNoDivision(a, ctl) ==
    IF out_case(ctl) = 0
    THEN IF ctl.Z.active THEN RMul(a.z, ctl.Z.scale) ELSE a.z
    ELSE IF out_case(ctl) = 1 THEN a.w
    ELSE RMul(a.z, a.w)

\* Lines 1072-1083: the value written for a node with sums a.
NodeValue(a, ctl) ==
    IF out_case(ctl) = 0
    THEN LET avg == IF a.w = Rat(0) THEN Rat(0) ELSE RDiv(a.z, a.w)
         IN  IF ctl.Z.active THEN RMul(avg, ctl.Z.scale) ELSE avg
    ELSE IF out_case(ctl) = 1 THEN a.w
    ELSE RMul(a.z, a.w)

(***************************************************************************)
(* The actions: the steps of the row loop of GMT_grdblend.                 *)
(***************************************************************************)
\* Lines 1003-1011: a new row: clear z and wind every tile to the row.
\* With no fault the tiles become grdblend_sync_input_rows (row, blend, half);
\* a status other than GMT_NOERROR ends the run (lines 1008-1011).
SyncRows ==
    /\ pc = "sync"
    /\ row < Grid.n_rows
    /\ z' = [c \in 1..Grid.n_columns |-> Rat(0)]
    /\ \E F \in FaultPlans(n_blend, faults) :
         LET s == IF \A k \in 1..n_blend : F[k] = "none"
                  THEN [B |-> grdblend_sync_input_rows(row, blend,
                                                       XYOff2(Grid.registration)),
                        status |-> GMT_NOERROR, failed |-> {}]
                  ELSE SyncLoop(blend, 1, row, XYOff2(Grid.registration), F, {})
         IN  /\ blend' = s.B
             /\ status' = s.status
             /\ failed' = failed \cup s.failed
             /\ faults' = faults - Cardinality(s.failed)
             /\ pc' = IF s.status # GMT_NOERROR THEN "abort" ELSE "node"
    /\ col' = 0
    /\ UNCHANGED <<Ctrl, Grid, wrap_x, no_data_f, row, n_fill, n_empty, z_min,
                   z_max, put, unionvars, job, L, n_cur, not_supported>>

\* Some tile would be read outside its row buffer at output column c.
BadRead(c) ==
    \E k \in 1..n_blend :
        /\ ~blend[k].ignore /\ ~blend[k].outside /\ ~OutsideX(blend[k], c, wrap_x)
        /\ LET kk == PCol(blend[k], c, wrap_x) - blend[k].out_i0
           IN  ~(blend[k].z_alloc /\ (kk + 1) \in DOMAIN blend[k].z)

\* Lines 1013-1092: one output node.
ComposeNode ==
    /\ pc = "node"
    /\ col < Grid.n_columns
    /\ \E junk \in (IF BadRead(col) THEN {Vals[i] : i \in 1..Len(Vals)} ELSE {NaN}) :
         LET a == NodeSums(blend, col, Ctrl, wrap_x, XYOff2(Grid.registration), junk)
             v == NodeValue(a, Ctrl)
         IN  IF a.m # 0
             THEN /\ z' = [z EXCEPT ![col + 1] = v]
                  /\ n_fill' = n_fill + 1
                  /\ z_min' = IF RLess(v, z_min) THEN v ELSE z_min
                  /\ z_max' = IF RLess(z_max, v) THEN v ELSE z_max
                  /\ n_empty' = n_empty
             ELSE /\ z' = [z EXCEPT ![col + 1] = no_data_f]
                  /\ n_empty' = n_empty + 1
                  /\ UNCHANGED <<n_fill, z_min, z_max>>
    /\ col' = col + 1
    /\ pc' = IF col + 1 < Grid.n_columns THEN "node" ELSE "put"
    /\ UNCHANGED <<Ctrl, Grid, wrap_x, no_data_f, blend, row, put, regvars>>

\* Lines 1093-1102: the finished row is written and the loop moves on.
PutRow ==
    /\ pc = "put"
    /\ put' = Append(put, [row |-> row, z |-> z])
    /\ row' = row + 1
    /\ pc' = IF row + 1 < Grid.n_rows THEN "sync" ELSE "free"
    /\ UNCHANGED <<Ctrl, Grid, wrap_x, no_data_f, blend, col, z, n_fill, n_empty,
                   z_min, z_max, regvars>>

\* Lines 1124-1135 for one tile.
FreeTile(B) ==
    LET B1 == IF B.open \/ B.memory
              THEN [B EXCEPT !.z = <<>>, !.z_alloc = FALSE, !.n_zfree = B.n_zfree + 1,
                             !.RbR.alloc = FALSE, !.n_rbrfree = B.n_rbrfree + 1]
              ELSE B
    IN  IF B1.open
        THEN [B1 EXCEPT !.G = [live |-> FALSE, fp |-> FALSE, header |-> B.G.header],
                        !.n_close = B.n_close + 1,
                        !.n_remove = IF B.delete THEN B.n_remove + 1 ELSE B.n_remove]
        ELSE B1

\* Lines 1104-1171: after the last row the tile list is released.
FreeBlend ==
    /\ pc = "free"
    /\ blend' = [k \in 1..n_blend |-> FreeTile(blend[k])]
    /\ pc' = "done"
    /\ UNCHANGED <<Ctrl, Grid, wrap_x, no_data_f, row, col, z, n_fill, n_empty,
                   z_min, z_max, put, regvars>>

Next == SyncRows \/ ComposeNode \/ PutRow \/ FreeBlend

(***************************************************************************)
(* Initial states: the state GMT_grdblend is in when the row loop starts,  *)
(* for a job J: the options, the output region [0, NX] x [0, NY] (in       *)
(* increments) with J.registration, and the blend list J.list.             *)
(***************************************************************************)
OutHeader(registration) == Header(Wesn(0, 2 * NX, 0, 2 * NY), registration)

\* Lines 212 and 315: the region before any tile has been looked at.
NoRegion == Wesn(DBL_MAX, -DBL_MAX, DBL_MAX, -DBL_MAX)

Start(J) ==
    LET h == OutHeader(J.registration)
    IN  /\ Ctrl = J.Ctrl
        /\ Grid = h
        /\ wrap_x = J.x_is_lon
        /\ no_data_f = J.no_data_f
        /\ blend = [k \in 1..Len(J.list) |-> InitTile(J.list[k], h, J.x_is_lon)]
        /\ pc = "sync"
        /\ row = 0
        /\ col = 0
        /\ z = [c \in 1..h.n_columns |-> Rat(0)]
        /\ n_fill = 0
        /\ n_empty = 0
        /\ z_min = Rat(DBL_MAX)
        /\ z_max = Rat(-DBL_MAX)
        /\ put = <<>>
        /\ job = J
        /\ L = <<>>
        /\ n_cur = Len(J.list)
        /\ not_supported = 0
        /\ status = Len(J.list)
        /\ faults = 0
        /\ failed = {}
        /\ wesn = NoRegion
        /\ common_inc = TRUE
        /\ common_reg = TRUE

\* Lists of 1 to MaxTiles entries drawn from the set E.
Lists(E) == UNION {[1..n -> E] : n \in 1..MaxTiles}

\* The options: -C (mode, sign), -W[z], -Z.
Options(Cact, mode, sign, Wact, Wmode, Zact, scale) ==
    [C |-> [active |-> Cact, mode |-> mode, sign |-> sign],
     W |-> [active |-> Wact, mode |-> Wmode],
     Z |-> [active |-> Zact, scale |-> Rat(scale)]]

\* The output side of the options: the blended value, the value scaled
\* by 2 (-Z2), the weight sum (-W), the weight sum times z (-Wz).
OutModes == {<<FALSE, 0, FALSE, 1>>, <<FALSE, 0, TRUE, 2>>,
             <<TRUE, 0, FALSE, 1>>, <<TRUE, 1, FALSE, 1>>}

\* Regions of tiles, against the output region.
XFull == [w |-> 0, e |-> 2 * NX]
XWest == [w |-> -2, e |-> 2 * NX - 2]
YFull == [s |-> 0, n |-> 2 * NY]
YNorth == [s |-> 2, n |-> 2 * NY + 2]
YSouth == [s |-> -2, n |-> 2 * NY - 2]
YOut == [s |-> 2 * NY + 2, n |-> 2 * NY + 4]

\* A blend list entry whose file has the region x, y; the inner region is
\* the region shrunk by gw, ge, gs, gn (all 0: none given).
Entry(x, y, g, registration, weight, kind, type, seed) ==
    [t |-> Wesn(x.w, x.e, y.s, y.n), registration |-> registration,
     got_region |-> g # <<0, 0, 0, 0>>,
     region |-> Wesn(x.w + g[1], x.e - g[2], y.s + g[3], y.n - g[4]),
     weight |-> weight,
     memory |-> kind = "memory",
     do_sample |-> IF kind \in {"sampled", "moved"} THEN 1 ELSE 0,
     moved |-> kind = "moved",
     type |-> type, seed |-> seed]

NoGap == <<0, 0, 0, 0>>

\* Tiles that differ in their rows and in how they are held.
LifeEntries(registration) ==
    {Entry(XFull, y, NoGap, registration, 1, kt[1], kt[2], 1) :
        y \in {YFull, YNorth, YSouth, YOut},
        kt \in {<<"file", "b">>, <<"memory", "b">>, <<"sampled", "b">>,
                <<"moved", "b">>}}
    \cup {Entry(XFull, YNorth, NoGap, registration, 1, "file", ty, 1) : ty \in {"c", "n"}}
    \* a file north of the output whose inner region is given as reaching
    \* into it: it passes the test of line 403 but has no row to give
    \cup {Entry(XFull, YOut, <<0, 0, -4, 0>>, registration, 1, "file", "b", 1)}

\* The jobs with options from Cs, registrations Regs, geographic or not
\* (Lons), no-data values Ns and blend lists over E (registration).
Jobs(Cs, Regs, Lons, Ns, E) ==
    UNION {{[Ctrl |-> c, registration |-> reg, x_is_lon |-> lon, no_data_f |-> nd,
             list |-> l] : c \in Cs, lon \in Lons, nd \in Ns, l \in Lists(E[reg])} :
           reg \in Regs}

LifeJobs ==
    Jobs({Options(FALSE, 0, 0, FALSE, 0, FALSE, 1)},
         {GMT_GRID_NODE_REG, GMT_GRID_PIXEL_REG}, BOOLEAN, {NaN},
         [r \in {GMT_GRID_NODE_REG, GMT_GRID_PIXEL_REG} |-> LifeEntries(r)])

Init == \E J \in LifeJobs : Start(J)

Spec == Init /\ [][Next]_vars

(***************************************************************************)
(* Jobs that blend: tiles with and without a taper zone, with weights 1,   *)
(* 2 and -1 (inverted), under every output mode.                           *)
(***************************************************************************)
BlendEntries(registration) ==
    {Entry(xg[1], YFull, xg[2], registration, wt, "file", "b", seed) :
        xg \in {<<XFull, NoGap>>, <<XFull, <<2, 0, 0, 0>>>>, <<XFull, <<0, 0, 0, 2>>>>,
                <<XWest, NoGap>>},
        wt \in {1, 2, -1}, seed \in {1, 4}}

BlendJobs ==
    Jobs({Options(FALSE, 0, 0, o[1], o[2], o[3], o[4]) : o \in OutModes},
         {GMT_GRID_NODE_REG, GMT_GRID_PIXEL_REG}, {FALSE}, {NaN},
         [r \in {GMT_GRID_NODE_REG, GMT_GRID_PIXEL_REG} |-> BlendEntries(r)])

InitBlend == \E J \in BlendJobs : Start(J)

SpecBlend == InitBlend /\ [][Next]_vars

(***************************************************************************)
(* Jobs for the combination policies: -C with every mode and sign, and     *)
(* blending, over tiles that cover all or the west of the output and hold  *)
(* NaN, negative, zero and positive values.                                *)
(***************************************************************************)
ClobberEntries(registration) ==
    {Entry(x, YFull, NoGap, registration, 1, "file", "b", seed) :
        x \in {XFull, XWest}, seed \in {0, 1, 3}}

ClobberModes == {BLEND_UPPER, BLEND_LOWER, BLEND_FIRST, BLEND_LAST}

\* Every policy with every output mode, and the sign filters with the
\* value and the weight written.
PolicyCtrls ==
    {Options(FALSE, 0, 0, o[1], o[2], o[3], o[4]) : o \in OutModes}
    \cup {Options(TRUE, m, 0, o[1], o[2], o[3], o[4]) : m \in ClobberModes, o \in OutModes}
    \cup {Options(TRUE, m, s, wa, 0, FALSE, 1) :
             m \in ClobberModes, s \in {-1, 1}, wa \in BOOLEAN}

ClobberJobs ==
    Jobs(PolicyCtrls, {GMT_GRID_NODE_REG, GMT_GRID_PIXEL_REG}, {FALSE}, {NaN},
         [r \in {GMT_GRID_NODE_REG, GMT_GRID_PIXEL_REG} |-> ClobberEntries(r)])
    \cup Jobs({Options(FALSE, 0, 0, FALSE, 0, FALSE, 1),
               Options(TRUE, BLEND_FIRST, 0, FALSE, 0, FALSE, 1),
               Options(TRUE, BLEND_UPPER, 1, FALSE, 0, FALSE, 1)},
              {GMT_GRID_NODE_REG}, {TRUE}, {Rat(0)},
              [r \in {GMT_GRID_NODE_REG, GMT_GRID_PIXEL_REG} |-> ClobberEntries(r)])

InitClobber == \E J \in ClobberJobs : Start(J)

SpecClobber == InitClobber /\ [][Next]_vars

(***************************************************************************)
(* Jobs on a periodic x axis: tiles that go once around, from a quarter    *)
(* turn west of the output to more than a turn east of it, and a tile      *)
(* that covers the west of the output.                                     *)
(***************************************************************************)
WrapWests == {2 - P360, -2, 0, 2, P360 - 2, P360, P360 + 2}

WrapEntries(registration) ==
    {Entry([w |-> x, e |-> x + P360], YFull, NoGap, registration, 1, "file", "b", 1) :
        x \in WrapWests}
    \cup {Entry(XWest, YFull, NoGap, registration, 1, "file", "b", 1)}

WrapJobs ==
    Jobs({Options(FALSE, 0, 0, FALSE, 0, FALSE, 1)},
         {GMT_GRID_NODE_REG, GMT_GRID_PIXEL_REG}, BOOLEAN, {NaN},
         [r \in {GMT_GRID_NODE_REG, GMT_GRID_PIXEL_REG} |-> WrapEntries(r)])

InitWrap == \E J \in WrapJobs : Start(J)

SpecWrap == InitWrap /\ [][Next]_vars

(***************************************************************************)
(* grdblend_init_blend_job step by step, for an output grid given by -R -I *)
(* (h is the header of Grid).  The blend list comes from the command line  *)
(* (several files) or from the records of a blend file.                    *)
(***************************************************************************)
\* Lines 109-126: the formats that cannot be read row by row.
not_supported_formats == {"rb", "rf", "sf", "sd", "af", "ei", "ef", "gd"}

grdblend_found_unsupported_format(type) ==
    IF type \in not_supported_formats THEN 1 ELSE GMT_NOERROR

\* The tokens that may follow the file name in a record: "-", a region
\* w/e/s/n (with or without a leading -R; here given by how far it lies
\* inside the region of the file) and a number.
Dash == [kind |-> "dash", value |-> 0, gap |-> <<0, 0, 0, 0>>, dashR |-> FALSE]

Number(v) == [kind |-> "number", value |-> v, gap |-> <<0, 0, 0, 0>>, dashR |-> FALSE]

Region(g, dashR) == [kind |-> "region", value |-> 0, gap |-> g, dashR |-> dashR]

\* Line 262: sscanf (In->text, "%s %s %lf", file, r_in, &weight) on a record
\* made of the file name and the tokens toks: the number of items assigned.
n_scanned(toks) ==
    IF Len(toks) = 0 THEN 1
    ELSE IF Len(toks) >= 2 /\ toks[2].kind = "number" THEN 3
    ELSE 2

\* atof: the number a token starts with, 0.0 when it starts with none.
atof(tok) == tok.value

\* Lines 262-285: one record becomes one struct BLEND_LIST (file, region,
\* weight).
ParseRecord(rec) ==
    LET toks == rec.toks
        ns == n_scanned(toks)
        nr == IF ns > 1 /\ toks[1].kind = "region" THEN 3 ELSE 0
        got_region == ns > 1 /\ nr = 3
        weight == IF ns = 2 /\ ~got_region THEN atof(toks[1])
                  ELSE IF ns = 3 THEN toks[2].value
                  ELSE 0
        g == IF got_region THEN toks[1].gap ELSE <<0, 0, 0, 0>>
        t == rec.file.t
    IN  [rec.file EXCEPT
          !.got_region = got_region,
          !.region = Wesn(t.w + g[1], t.e - g[2], t.s + g[3], t.n - g[4]),
          !.weight = IF ns = 1 \/ (ns = 2 /\ got_region) THEN 1 ELSE weight]

\* Lines 232-236: a file named on the command line.
ListFile(file) ==
    [file EXCEPT !.got_region = FALSE, !.region = file.t, !.weight = 1]

\* A call of a collaborator that failed while the registry was built.
Failure(call, k) == [call |-> call, k |-> k, row |-> -1]

\* Lines 230-237: the files of the command line become the list.
ListFiles ==
    /\ pc = "list"
    /\ job.cmd_line
    /\ L' = [k \in 1..Len(job.files) |-> ListFile(job.files[k])]
    /\ blend' = [k \in 1..Len(job.files) |-> ZeroInfo]
    /\ n_cur' = 0
    /\ pc' = "load"
    /\ UNCHANGED <<Ctrl, Grid, wrap_x, no_data_f, row, col, z, n_fill, n_empty,
                   z_min, z_max, put, unionvars, job, not_supported, status, faults, failed>>

\* Lines 247-298 and 314: one turn of the loop over the records: the next
\* record is parsed, or reading fails, or the end of the file is reached.
GetRecord ==
    /\ pc = "list"
    /\ ~job.cmd_line
    /\ \/ /\ n_cur < Len(job.records)
          /\ L' = Append(L, ParseRecord(job.records[n_cur + 1]))
          /\ n_cur' = n_cur + 1
          /\ UNCHANGED <<blend, pc, status, faults, failed>>
       \/ /\ faults > 0
          /\ status' = -GMT_DATA_READ_ERROR
          /\ failed' = failed \cup {Failure("record", n_cur + 1)}
          /\ faults' = faults - 1
          /\ pc' = "returned"
          /\ UNCHANGED <<blend, L, n_cur>>
       \/ /\ n_cur = Len(job.records)
          /\ blend' = [k \in 1..Len(L) |-> ZeroInfo]
          /\ n_cur' = 0
          /\ pc' = "load"
          /\ UNCHANGED <<L, status, faults, failed>>
    /\ UNCHANGED <<Ctrl, Grid, wrap_x, no_data_f, row, col, z, n_fill, n_empty,
                   z_min, z_max, put, unionvars, job, not_supported>>

\* Lines 318-363 for tile n: its header is read and its format looked up.
ReadHeader ==
    /\ pc = "load"
    /\ n_cur < Len(L)
    /\ \/ /\ blend' = [blend EXCEPT ![n_cur + 1] = ReadTile(L[n_cur + 1])]
          /\ not_supported' = grdblend_found_unsupported_format(L[n_cur + 1].type)
          /\ n_cur' = IF n_cur + 1 < Len(L) THEN n_cur + 1 ELSE 0
          /\ pc' = IF n_cur + 1 < Len(L) THEN "load" ELSE "tile"
          /\ UNCHANGED <<status, faults, failed>>
       \/ /\ faults > 0
          \* lines 330-337: L and B are freed, the grids read so far are not
          /\ status' = -GMT_DATA_READ_ERROR
          /\ failed' = failed \cup {Failure("header", n_cur + 1)}
          /\ faults' = faults - 1
          /\ pc' = "returned"
          /\ UNCHANGED <<blend, not_supported, n_cur>>
    /\ UNCHANGED <<Ctrl, Grid, wrap_x, no_data_f, row, col, z, n_fill, n_empty,
                   z_min, z_max, put, unionvars, job, L>>

\* Lines 423-435 and 456: the reasons to call grdsample or grdconvert: 2
\* for the format, 1 for increments or phase (given with the file).
DoSample(l, ns) == (IF ns # 0 THEN 2 ELSE 0) + l.do_sample

\* The calls that may fail in lines 468-564: gmt_get_tempname (473, 489),
\* GMT_Call_Module (480, 495), GMT_Destroy_Data (502), GMT_Read_Data (505)
\* and GMT_Destroy_Data (563).
TileFaults == {"none", "tempname", "module", "destroy", "reread", "release"}

\* Lines 512-564 when the call f fails.
FinishTileFailing(B, h, f) ==
    LET B1 == FinishTile(B, h)
    IN  IF f = "release" /\ ~B1.memory
        THEN Broke([B1 EXCEPT !.G.live = TRUE], TRUE, -GMT_RUNTIME_ERROR)
        ELSE Went(B1)

\* Lines 468-564 for a tile that must be resampled or reformatted, when the
\* call f fails.
ResampledFailing(B0, l, h, f) ==
    LET B1 == [B0 EXCEPT !.delete = TRUE, !.temp = TRUE]
    IN  IF f = "tempname" THEN Broke(B0, TRUE, GMT_RUNTIME_ERROR)
        ELSE IF f = "module" THEN Broke(B0, TRUE, -GMT_RUNTIME_ERROR)
        ELSE IF f = "destroy" THEN Broke(B1, TRUE, -GMT_RUNTIME_ERROR)
        ELSE IF f = "reread"
        THEN Broke([B1 EXCEPT !.G.live = FALSE, !.G.fp = FALSE], TRUE,
                   -GMT_DATA_READ_ERROR)
        ELSE LET B2 == Resampled(B0, l, h)
             IN  IF B2.ignore THEN Went(B2)
                 ELSE IF f = "release"
                 THEN Broke([B2 EXCEPT !.G.live = TRUE], TRUE, -GMT_RUNTIME_ERROR)
                 ELSE Went(B2)

\* Lines 399-565 for one tile: B0 is the struct the first loop left, l its
\* list entry, ns the value of not_supported.
TileOutcome(B0, l, h, x_is_lon, ns, f) ==
    LET B == Screen(B0, h, x_is_lon)
    IN  IF B.ignore THEN Went(B)
        ELSE IF DoSample(l, ns) # 0 THEN ResampledFailing(B, l, h, f)
        ELSE FinishTileFailing(B, h, f)

\* Lines 399-573 for tile n; after the last tile the number of tiles is
\* returned.
BlendTile ==
    /\ pc = "tile"
    /\ n_cur < Len(L)
    /\ \E f \in (IF faults > 0 THEN TileFaults ELSE {"none"}) :
         LET r == TileOutcome(blend[n_cur + 1], L[n_cur + 1], Grid, job.x_is_lon,
                              not_supported, f)
         IN  /\ blend' = [blend EXCEPT ![n_cur + 1] = r.B]
             /\ failed' = IF r.failed THEN failed \cup {Failure(f, n_cur + 1)}
                          ELSE failed
             /\ faults' = IF r.failed THEN faults - 1 ELSE faults
             /\ IF r.ret
                THEN /\ status' = r.status
                     /\ pc' = "returned"
                     /\ n_cur' = n_cur
                ELSE /\ n_cur' = n_cur + 1
                     /\ pc' = IF n_cur + 1 < Len(L) THEN "tile" ELSE "returned"
                     /\ status' = IF n_cur + 1 < Len(L) THEN status ELSE Len(L)
    /\ UNCHANGED <<Ctrl, Grid, wrap_x, no_data_f, row, col, z, n_fill, n_empty,
                   z_min, z_max, put, unionvars, job, L, not_supported>>

\* Line 571 was not reached: the pointer blend of GMT_grdblend is NULL.
BlendIsNull == \E x \in failed : x.row = -1

\* Lines 916-1001: a negative status ends the run; any other is taken for
\* the number of tiles and the row loop starts.  With blend NULL the first
\* read of blend[0] (line 582) is outside any object: the run is lost.
BeginScan ==
    /\ pc = "returned"
    /\ IF status < 0
       THEN /\ status' = -status
            /\ pc' = "abort"
       ELSE /\ status' = status
            /\ pc' = IF BlendIsNull THEN "crash" ELSE "sync"
    /\ UNCHANGED <<Ctrl, Grid, wrap_x, no_data_f, blend, row, col, z, n_fill,
                   n_empty, z_min, z_max, put, unionvars, job, L, n_cur, not_supported,
                   faults, failed>>

NextJob == ListFiles \/ GetRecord \/ ReadHeader \/ BlendTile \/ BeginScan \/ Next

(***************************************************************************)
(* Runs from the entry of grdblend_init_blend_job to the return of         *)
(* GMT_grdblend, in which up to MaxFaults calls of collaborators fail.     *)
(***************************************************************************)
MaxFaults == 1

\* The records of a blend file in every shape of lines 257-260, for one
\* file that covers the output region.
ShapeRecords(registration) ==
    {[file |-> Entry(XFull, YFull, NoGap, registration, 1, "file", "b", 1), toks |-> tk] :
        tk \in {<<>>, <<Dash>>, <<Region(<<2, 0, 0, 0>>, FALSE)>>,
                <<Region(<<2, 0, 0, 0>>, TRUE)>>, <<Number(2)>>, <<Number(-1)>>,
                <<Dash, Number(2)>>, <<Dash, Number(-1)>>,
                <<Region(<<2, 0, 0, 0>>, FALSE), Number(2)>>}}

\* Files in formats that can ("b") and cannot ("rb") be read row by row,
\* that need resampling or not, and that start at or north of the top row.
JobFiles(registration) ==
    {Entry(XFull, y, NoGap, registration, 1, kind, type, 1) :
        y \in {YFull, YNorth}, kind \in {"file", "sampled"}, type \in {"b", "rb"}}
    \cup {Entry(XFull, YFull, NoGap, registration, 1, "moved", "b", 1)}

JobRecords(registration) ==
    ShapeRecords(registration)
    \cup {[file |-> f, toks |-> <<>>] : f \in JobFiles(registration)}

\* The state at the entry of grdblend_init_blend_job.
Entered(J) ==
    LET h == OutHeader(J.registration)
    IN  /\ Ctrl = J.Ctrl
        /\ Grid = h
        /\ wrap_x = J.x_is_lon
        /\ no_data_f = J.no_data_f
        /\ blend = <<>>
        /\ pc = "list"
        /\ row = 0
        /\ col = 0
        /\ z = [c \in 1..h.n_columns |-> Rat(0)]
        /\ n_fill = 0
        /\ n_empty = 0
        /\ z_min = Rat(DBL_MAX)
        /\ z_max = Rat(-DBL_MAX)
        /\ put = <<>>
        /\ job = J
        /\ L = <<>>
        /\ n_cur = 0
        /\ not_supported = 0
        /\ status = 0
        /\ faults = MaxFaults
        /\ failed = {}
        /\ wesn = NoRegion
        /\ common_inc = TRUE
        /\ common_reg = TRUE

\* Blend files of 1 to MaxTiles records, and command lines of 2 to MaxTiles
\* files.
FileJobs ==
    UNION {{[Ctrl |-> Options(FALSE, 0, 0, FALSE, 0, FALSE, 1), registration |-> reg,
             x_is_lon |-> FALSE, no_data_f |-> NaN, cmd_line |-> FALSE,
             records |-> l, files |-> <<>>] : l \in Lists(JobRecords(reg))} :
           reg \in {GMT_GRID_NODE_REG, GMT_GRID_PIXEL_REG}}

CommandJobs ==
    UNION {{[Ctrl |-> Options(FALSE, 0, 0, FALSE, 0, FALSE, 1), registration |-> reg,
             x_is_lon |-> FALSE, no_data_f |-> NaN, cmd_line |-> TRUE,
             records |-> <<>>, files |-> l] :
              l \in {f \in Lists(JobFiles(reg)) : Len(f) > 1}} :
           reg \in {GMT_GRID_NODE_REG, GMT_GRID_PIXEL_REG}}

InitJob == \E J \in FileJobs \cup CommandJobs : Entered(J)

SpecJob == InitJob /\ [][NextJob]_vars

(***************************************************************************)
(* The output region when no -R is given (lines 315-394).  Here a tile is  *)
(* the header of its file: region, increments <<x, y>> and registration,   *)
(* all coordinates and increments whole numbers of one common unit.        *)
(***************************************************************************)
TileHeader(x, y, inc, registration) ==
    [wesn |-> Wesn(x[1], x[2], y[1], y[2]), inc |-> inc, registration |-> registration]

\* h is NULL: there is no output header yet.
NoHeader == [wesn |-> Wesn(0, 0, 0, 0), inc |-> <<0, 0>>, registration |-> 0]

\* Lines 354-355: fabs ((a - b) / b) > 0.002.
IncDiffers(a, b) == 1000 * Abs(a - b) > 2 * Abs(b)

\* Lines 349-352: the region w grown to hold the region t.
UnionRegion(w, t) ==
    Wesn(IF t.w < w.w THEN t.w ELSE w.w, IF t.e > w.e THEN t.e ELSE w.e,
         IF t.s < w.s THEN t.s ELSE w.s, IF t.n > w.n THEN t.n ELSE w.n)

\* (uint64_t)ceil (a / b - GMT_CONV6_LIMIT) for whole a >= 0 and b > 0: the
\* quotient of two small whole numbers is never within 1e-6 above a whole
\* number, so this is the ceiling of a / b.
CeilDiv(a, b) == (a + b - 1) \div b

\* Lines 380-383: east and north moved out to a whole number of increments;
\* `*inc' is inc[GMT_X] in both assignments.
DerivedRegion(w, inc) ==
    LET ppx == CeilDiv(w.e - w.w, inc[1])
        ppy == CeilDiv(w.n - w.s, inc[2])
    IN  Wesn(w.w, w.w + ppx * inc[1], w.s, w.s + ppy * inc[1])

\* Lines 348-360 for tile n.
UnionTile ==
    /\ pc = "union"
    /\ n_cur < Len(job.tiles)
    /\ LET t  == job.tiles[n_cur + 1]
           t0 == job.tiles[1]
       IN  /\ wesn' = UnionRegion(wesn, t.wesn)
           /\ common_inc' = IF n_cur > 0 /\ (IncDiffers(t.inc[1], t0.inc[1])
                                              \/ IncDiffers(t.inc[2], t0.inc[2]))
                            THEN FALSE ELSE common_inc
           /\ common_reg' = IF t.registration # t0.registration THEN FALSE
                            ELSE common_reg
    /\ n_cur' = n_cur + 1
    /\ pc' = IF n_cur + 1 < Len(job.tiles) THEN "union" ELSE "derive"
    /\ UNCHANGED <<Ctrl, Grid, wrap_x, no_data_f, blend, row, col, z, n_fill,
                   n_empty, z_min, z_max, put, job, L, not_supported, status,
                   faults, failed>>

\* Lines 366-394: the header of the output grid is made from the union of
\* the tiles, or the run ends for want of -I or -r.  With -I given as plain
\* increments gmt_increment_adjust (line 378) leaves region and increments
\* as they are.
DeriveRegion ==
    /\ pc = "derive"
    /\ IF (~common_inc /\ ~job.I_active) \/ (~common_reg /\ ~job.r_active)
       THEN /\ status' = -GMT_RUNTIME_ERROR
            /\ pc' = "returned"
            /\ UNCHANGED <<Grid, wesn>>
       ELSE LET inc == IF job.I_active THEN job.inc ELSE job.tiles[1].inc
                w == DerivedRegion(wesn, inc)
            IN  /\ wesn' = w
                /\ Grid' = [wesn |-> w, inc |-> inc,
                            registration |-> IF job.r_active THEN job.registration
                                             ELSE job.tiles[1].registration]
                /\ pc' = "derived"
                /\ UNCHANGED status
    /\ UNCHANGED <<Ctrl, wrap_x, no_data_f, blend, row, col, z, n_fill, n_empty,
                   z_min, z_max, put, job, L, n_cur, not_supported, faults,
                   failed, common_inc, common_reg>>

NextRegion == UnionTile \/ DeriveRegion

\* Increments that are equal and that differ in x and y.
RegionIncs == {<<1, 1>>, <<1, 2>>, <<2, 1>>}

\* Files whose regions overlap, are nested or lie apart in x and in y.
RegionTiles ==
    {TileHeader(x, y, inc, reg) :
        x \in {<<0, 4>>, <<2, 7>>}, y \in {<<0, 4>>, <<1, 3>>},
        inc \in RegionIncs, reg \in {GMT_GRID_NODE_REG, GMT_GRID_PIXEL_REG}}

\* Runs without -R: with or without -I and -r, over 1 to MaxTiles files.
RegionJobs ==
    {[tiles |-> l, I_active |-> i[1], inc |-> i[2], r_active |-> r[1],
      registration |-> r[2]] :
        l \in Lists(RegionTiles),
        i \in {<<FALSE, <<0, 0>>>>, <<TRUE, <<1, 2>>>>, <<TRUE, <<2, 2>>>>},
        r \in {<<FALSE, 0>>, <<TRUE, GMT_GRID_PIXEL_REG>>}}

\* The state at line 315 of a run without -R.
InitRegion ==
    /\ job \in RegionJobs
    /\ Ctrl = Options(FALSE, 0, 0, FALSE, 0, FALSE, 1)
    /\ Grid = NoHeader
    /\ wrap_x = FALSE
    /\ no_data_f = NaN
    /\ blend = <<>>
    /\ pc = "union"
    /\ row = 0
    /\ col = 0
    /\ z = <<>>
    /\ n_fill = 0
    /\ n_empty = 0
    /\ z_min = Rat(DBL_MAX)
    /\ z_max = Rat(-DBL_MAX)
    /\ put = <<>>
    /\ L = <<>>
    /\ n_cur = 0
    /\ not_supported = 0
    /\ status = 0
    /\ faults = 0
    /\ failed = {}
    /\ wesn = NoRegion
    /\ common_inc = TRUE
    /\ common_reg = TRUE

SpecRegion == InitRegion /\ [][NextRegion]_vars

(***************************************************************************)
(* The screening of one tile against the output region: one call of        *)
(* grdblend_overlap_check on the header of a geographic tile (job.lon_only)*)
(* or lines 402-418 as a whole.  Longitudes lie within two turns of the    *)
(* output region, as the start `shift = 720.0' of line 160 supposes.       *)
(***************************************************************************)
\* Lines 159-183 with mode 0 for tile B.
OverlapChecked(B, h) ==
    LET t == B.G.header
        o == grdblend_overlap_check(t.wesn.w, t.wesn.e, t, h)
    IN  IF o.ret THEN [B EXCEPT !.ignore = TRUE]
        ELSE [B EXCEPT !.G.header.wesn.w = o.w, !.G.header.wesn.e = o.e]

CheckOverlap ==
    /\ pc = "overlap"
    /\ blend' = [blend EXCEPT ![1] = OverlapChecked(blend[1], Grid)]
    /\ pc' = "checked"
    /\ UNCHANGED <<Ctrl, Grid, wrap_x, no_data_f, row, col, z, n_fill, n_empty,
                   z_min, z_max, put, regvars>>

\* Lines 402-418 for tile n.
ScreenTile ==
    /\ pc = "screen"
    /\ blend' = [blend EXCEPT ![1] = Screen(blend[1], Grid, job.x_is_lon)]
    /\ pc' = "screened"
    /\ UNCHANGED <<Ctrl, Grid, wrap_x, no_data_f, row, col, z, n_fill, n_empty,
                   z_min, z_max, put, regvars>>

NextScreen == CheckOverlap \/ ScreenTile

\* Widths of tiles in half increments: all less than a full turn.
LonWidths == {2, 4, 8}

\* Geographic tiles from two turns west to two turns east of the output.
LonEntries(registration) ==
    {Entry([w |-> 2 * i, e |-> 2 * i + wd], YFull, NoGap, registration, 1,
           "file", "b", 1) :
        i \in (-nx_360 - 5)..(nx_360 + 2), wd \in LonWidths}

\* Inner regions: none given, or the southern, northern, western or
\* eastern rim of the file, one half increment wide.
RimGaps == {NoGap, <<0, 0, 0, 2 * NY - 1>>, <<0, 0, 2 * NY - 1, 0>>,
            <<0, 2 * NX - 1, 0, 0>>, <<2 * NX - 1, 0, 0, 0>>}

XEast == [w |-> 2, e |-> 2 * NX + 2]
XOut == [w |-> 2 * NX + 2, e |-> 4 * NX + 2]

ScreenEntries(registration) ==
    {Entry(x, y, g, registration, 1, "file", "b", 1) :
        x \in {XFull, XWest, XEast, XOut}, y \in {YFull, YNorth, YSouth, YOut},
        g \in RimGaps}

ScreenJobs ==
    UNION {{[entry |-> l, registration |-> reg, x_is_lon |-> TRUE, lon_only |-> TRUE] :
               l \in LonEntries(reg)} :
           reg \in {GMT_GRID_NODE_REG, GMT_GRID_PIXEL_REG}}
    \cup UNION {{[entry |-> l, registration |-> reg, x_is_lon |-> lon, lon_only |-> FALSE] :
                   l \in ScreenEntries(reg), lon \in BOOLEAN} :
                reg \in {GMT_GRID_NODE_REG, GMT_GRID_PIXEL_REG}}

\* The state before line 402 for the only tile of the list.
InitScreen ==
    /\ job \in ScreenJobs
    /\ Ctrl = Options(FALSE, 0, 0, FALSE, 0, FALSE, 1)
    /\ Grid = OutHeader(job.registration)
    /\ wrap_x = job.x_is_lon
    /\ no_data_f = NaN
    /\ blend = <<ReadTile(job.entry)>>
    /\ pc = IF job.lon_only THEN "overlap" ELSE "screen"
    /\ row = 0
    /\ col = 0
    /\ z = <<>>
    /\ n_fill = 0
    /\ n_empty = 0
    /\ z_min = Rat(DBL_MAX)
    /\ z_max = Rat(-DBL_MAX)
    /\ put = <<>>
    /\ L = <<job.entry>>
    /\ n_cur = 0
    /\ not_supported = 0
    /\ status = 0
    /\ faults = 0
    /\ failed = {}
    /\ wesn = NoRegion
    /\ common_inc = TRUE
    /\ common_reg = TRUE

SpecScreen == InitScreen /\ [][NextScreen]_vars

(***************************************************************************)
(* The region handed to grdsample (lines 429-467), for a tile header with  *)
(* its own increments.  Coordinates and increments are whole numbers of a  *)
(* quarter of the output increment, so that a tile can be out of phase by  *)
(* a quarter, a half or three quarters of an increment.                    *)
(***************************************************************************)
\* rint (n / d) for d > 0: to the nearest whole number, halves to the even one.
Rint(n, d) ==
    LET q == n \div d
        r == n % d
    IN  IF 2 * r < d THEN q
        ELSE IF 2 * r > d THEN q + 1
        ELSE IF q % 2 = 0 THEN q ELSE q + 1

\* Lines 146-154: some side of g is not a whole number of increments of h
\* away from the same side of h.  The nodes are compared, twice over:
\* 2 * (wesn[side] + xy_off * inc[way]).
grdblend_out_of_phase(g, h) ==
    LET node2(hd, x, way) == 2 * x + XYOff2(hd.registration) * hd.inc[way]
        off(gx, hx, way) ==
            Abs(node2(g, gx, way) - node2(h, hx, way)) % (2 * h.inc[way]) # 0
    IN  \/ off(g.wesn.w, h.wesn.w, 1) \/ off(g.wesn.e, h.wesn.e, 1)
        \/ off(g.wesn.s, h.wesn.s, 2) \/ off(g.wesn.n, h.wesn.n, 2)

\* while (x < lim) x += step.
RECURSIVE StepUp(_, _, _)
StepUp(x, lim, step) == IF x < lim THEN StepUp(x + step, lim, step) ELSE x

\* while (x > lim) x -= step.
RECURSIVE StepDown(_, _, _)
StepDown(x, lim, step) == IF x > lim THEN StepDown(x - step, lim, step) ELSE x

\* Lines 442-444 and 448-450: the low edge, from the origin hlo of the
\* output and the low edge tlo of the tile.
PhaseLow(hlo, tlo, hinc, tinc, off2) ==
    LET a == IF hlo > tlo THEN hlo ELSE tlo
        k == Rint(2 * (a - hlo) - off2 * hinc, 2 * hinc)
    IN  StepUp(hlo + k * hinc, tlo, tinc)

\* Lines 445-447 and 451-453: the high edge.
PhaseHigh(hlo, hhi, thi, hinc, tinc, off2) ==
    LET a == IF hhi < thi THEN hhi ELSE thi
        k == Rint(2 * (a - hlo) - off2 * hinc, 2 * hinc)
    IN  StepDown(hlo + k * hinc, thi, tinc)

\* Lines 442-453: the region for a tile that is out of phase.
PhaseRegion(h, t) ==
    LET off2 == XYOff2(h.registration)
    IN  Wesn(PhaseLow(h.wesn.w, t.wesn.w, h.inc[1], t.inc[1], off2),
             PhaseHigh(h.wesn.w, h.wesn.e, t.wesn.e, h.inc[1], t.inc[1], off2),
             PhaseLow(h.wesn.s, t.wesn.s, h.inc[2], t.inc[2], off2),
             PhaseHigh(h.wesn.s, h.wesn.n, t.wesn.n, h.inc[2], t.inc[2], off2))

\* Lines 429-467: the region given to grdsample, if it is called.
SampleWindow ==
    /\ pc = "phase"
    /\ LET t == job.tile
       IN  IF grdblend_out_of_phase(t, Grid)
           THEN wesn' = PhaseRegion(Grid, t) /\ pc' = "phased"
           ELSE IF IncDiffers(t.inc[1], Grid.inc[1]) \/ IncDiffers(t.inc[2], Grid.inc[2])
           THEN wesn' = SampleRegion(Grid, t.wesn) /\ pc' = "clipped"
           ELSE wesn' = wesn /\ pc' = "asis"
    /\ UNCHANGED <<Ctrl, Grid, wrap_x, no_data_f, blend, row, col, z, n_fill,
                   n_empty, z_min, z_max, put, job, L, n_cur, not_supported,
                   status, faults, failed, common_inc, common_reg>>

NextPhase == SampleWindow

\* The output increment, in quarters of itself.
PhaseInc == 4

\* Tile increments: that of the output, half of it and one and a half of it.
PhaseIncs == {PhaseInc, PhaseInc \div 2, PhaseInc + PhaseInc \div 2}

PhaseOut(registration) ==
    TileHeader(<<0, PhaseInc * NX>>, <<0, PhaseInc * NY>>, <<PhaseInc, PhaseInc>>,
               registration)

\* Tiles of one or two increments a side that share at least an edge with
\* the output region.
PhaseTiles ==
    UNION {{TileHeader(<<a, a + m * i>>, y, <<i, i>>, reg) :
               a \in {b \in (-3)..(PhaseInc * NX) : b + m * i >= 0},
               y \in {<<0, 2 * i>>, <<1, 1 + i>>},
               reg \in {GMT_GRID_NODE_REG, GMT_GRID_PIXEL_REG}} :
           m \in 1..2, i \in PhaseIncs}

PhaseJobs ==
    {[tile |-> t, registration |-> reg] :
        t \in PhaseTiles, reg \in {GMT_GRID_NODE_REG, GMT_GRID_PIXEL_REG}}

InitPhase ==
    /\ job \in PhaseJobs
    /\ Ctrl = Options(FALSE, 0, 0, FALSE, 0, FALSE, 1)
    /\ Grid = PhaseOut(job.registration)
    /\ wrap_x = FALSE
    /\ no_data_f = NaN
    /\ blend = <<>>
    /\ pc = "phase"
    /\ row = 0
    /\ col = 0
    /\ z = <<>>
    /\ n_fill = 0
    /\ n_empty = 0
    /\ z_min = Rat(DBL_MAX)
    /\ z_max = Rat(-DBL_MAX)
    /\ put = <<>>
    /\ L = <<>>
    /\ n_cur = 0
    /\ not_supported = 0
    /\ status = 0
    /\ faults = 0
    /\ failed = {}
    /\ wesn = NoRegion
    /\ common_inc = TRUE
    /\ common_reg = TRUE

SpecPhase == InitPhase /\ [][NextPhase]_vars

(***************************************************************************)
(* What the properties speak of: the nodes composed so far, the value each *)
(* was given, and what the files of the tiles hold there.                  *)
(***************************************************************************)
\* The output nodes <<row, column>> composed so far.
Composed ==
    {rc \in (0..Grid.n_rows - 1) \X (0..Grid.n_columns - 1) :
        \/ rc[1] < Len(put)
        \/ rc[1] = row /\ pc \in {"node", "put"} /\ rc[2] < col}

\* The value node <<r, c>> was given.
Emitted(r, c) == IF r < Len(put) THEN put[r + 1].z[c + 1] ELSE z[c + 1]

\* Tile B is in use and has a node at output row r, column c.
Covers(B, r, c) ==
    ~B.ignore /\ B.out_j0 <= r /\ r <= B.out_j1 /\ ~OutsideX(B, c, wrap_x)

Covering(r, c) == {k \in 1..n_blend : Covers(blend[k], r, c)}

\* The value the file of tile B holds at output row r, column c.
FileValue(B, r, c) ==
    TileValue(B.seed, r - B.out_j0, PCol(B, c, wrap_x) - B.out_i0)

\* The tiles that cover <<r, c>> with a value that is not NaN.
Contributing(r, c) ==
    {k \in Covering(r, c) : ~IsNaN(FileValue(blend[k], r, c))}

ValueMode == ~Ctrl.W.active
WeightOnly == Ctrl.W.active /\ Ctrl.W.mode = 0
WeightTimesValue == Ctrl.W.active /\ Ctrl.W.mode = 1
ScaleOne == ~Ctrl.Z.active \/ Ctrl.Z.scale = Rat(1)
TotalCount == Grid.n_columns * Grid.n_rows

\* The only tile is the output grid itself: same region, no taper zone,
\* weight 1, not inverted.
SingleIdentity ==
    /\ n_blend = 1
    /\ ~Ctrl.C.active
    /\ ~blend[1].ignore
    /\ blend[1].G.header.wesn = Grid.wesn
    /\ blend[1].wesn = Grid.wesn
    /\ blend[1].weight = Rat(1)
    /\ ~blend[1].invert

\* C1: blending a single tile that is the output grid, with weight 1 and
\* no taper: every composed node where the tile is not NaN has the value of
\* the tile (mode Value, scale 1) or exactly 1 (mode WeightOnly), the nodes
\* counted as filled are exactly those where the tile is not NaN, and a
\* tile without NaN fills every node of the grid.
C1_SingleTileIdentity ==
    SingleIdentity =>
        /\ \A rc \in Composed :
              LET v == TileValue(blend[1].seed, rc[1], rc[2])
              IN  ~IsNaN(v) =>
                    /\ (ValueMode /\ ScaleOne) => Emitted(rc[1], rc[2]) = v
                    /\ WeightOnly => Emitted(rc[1], rc[2]) = Rat(1)
        /\ n_fill = Cardinality({rc \in Composed :
                                   ~IsNaN(TileValue(blend[1].seed, rc[1], rc[2]))})
        /\ (pc = "done" /\ \A rc \in Composed :
                              ~IsNaN(TileValue(blend[1].seed, rc[1], rc[2])))
              => n_fill = TotalCount

C1_Witness ==
    /\ SingleIdentity /\ pc = "done" /\ ValueMode /\ ScaleOne
    /\ Grid.registration = GMT_GRID_NODE_REG
    /\ n_fill = TotalCount
    /\ Emitted(NY, NX) = TileValue(blend[1].seed, NY, NX)
    /\ Emitted(NY, NX) # Emitted(0, 0)

\* Node <<r, c>> lies strictly inside the inner index range of tile B.
StrictlyInside(B, r, c) ==
    /\ B.in_j0 < r /\ r < B.in_j1
    /\ B.in_i0 < PCol(B, c, wrap_x) /\ PCol(B, c, wrap_x) < B.in_i1

\* Exactly two tiles cover <<r, c>>, both strictly inside their inner
\* range, with weight 1, not inverted and a value that is not NaN.
TwoPlainTiles(r, c) ==
    /\ Cardinality(Covering(r, c)) = 2
    /\ \A k \in Covering(r, c) :
          /\ StrictlyInside(blend[k], r, c)
          /\ blend[k].weight = Rat(1) /\ ~blend[k].invert
          /\ ~IsNaN(FileValue(blend[k], r, c))

\* C2: blending, mode Value, scale 1: a node strictly inside the inner
\* range of exactly two covering tiles of weight 1, not inverted, with
\* values a and b that are not NaN, is given (a + b) / 2.
C2_TwoTileMean ==
    (~Ctrl.C.active /\ ValueMode /\ ScaleOne) =>
        \A rc \in Composed :
            TwoPlainTiles(rc[1], rc[2]) =>
                \E k1, k2 \in Covering(rc[1], rc[2]) :
                    /\ k1 < k2
                    /\ Emitted(rc[1], rc[2]) =
                         RDiv(RAdd(FileValue(blend[k1], rc[1], rc[2]),
                                   FileValue(blend[k2], rc[1], rc[2])), Rat(2))

C2_Witness ==
    /\ ~Ctrl.C.active /\ ValueMode /\ ScaleOne /\ pc = "done"
    /\ TwoPlainTiles(0, 1)
    /\ FileValue(blend[1], 0, 1) = Rat(-1)
    /\ FileValue(blend[2], 0, 1) = Rat(2)
    /\ blend[1].wxl # 0
    /\ Emitted(0, 1) = <<1, 2>>

\* C3: under every policy and output mode the nodes given the no-data
\* value are exactly those where no tile in use, in row range and with the
\* node in its column range has a value that is not NaN; they are not
\* counted as filled, every other node is counted once, and after the scan
\* the filled and the no-data nodes add up to n_columns * n_rows.
C3_NoDataIffNoContributor ==
    /\ n_empty = Cardinality({rc \in Composed : Contributing(rc[1], rc[2]) = {}})
    /\ n_fill = Cardinality({rc \in Composed : Contributing(rc[1], rc[2]) # {}})
    /\ \A rc \in Composed :
          /\ Contributing(rc[1], rc[2]) = {} => Emitted(rc[1], rc[2]) = no_data_f
          /\ (IsNaN(no_data_f) /\ Contributing(rc[1], rc[2]) # {})
                => Emitted(rc[1], rc[2]) # no_data_f
    /\ pc = "done" => n_fill + n_empty = TotalCount

C3_Witness ==
    /\ pc = "done" /\ Ctrl.C.active /\ Ctrl.C.sign # 0
    /\ n_fill > 0
    /\ n_fill + n_empty = TotalCount
    /\ \E rc \in Composed : Covering(rc[1], rc[2]) = {}
    /\ \E rc \in Composed :
          Covering(rc[1], rc[2]) # {} /\ Contributing(rc[1], rc[2]) = {}

(***************************************************************************)
(* The clobber policies.                                                   *)
(***************************************************************************)
\* What the output mode makes of a value v taken with weight 1.
Rendered(v) ==
    IF WeightOnly THEN Rat(1)
    ELSE IF WeightTimesValue THEN v
    ELSE IF Ctrl.Z.active THEN RMul(v, Ctrl.Z.scale)
    ELSE v

FirstTile(K) == CHOOSE k \in K : \A j \in K : k <= j
LastTile(K) == CHOOSE k \in K : \A j \in K : j <= k
ValuesAt(K, r, c) == {FileValue(blend[k], r, c) : k \in K}
Highest(V) == CHOOSE v \in V : \A u \in V : RLeq(u, v)
Lowest(V) == CHOOSE v \in V : \A u \in V : RLeq(v, u)

\* C4: under -Cf without a sign filter every composed node that some tile
\* covers with a value that is not NaN is given the value of the first
\* such tile of the list (as the output mode writes a value of weight 1),
\* so the value of the first tile of the list wherever it has one.
C4_ClobberFirst ==
    (Ctrl.C.active /\ Ctrl.C.mode = BLEND_FIRST /\ Ctrl.C.sign = 0) =>
        \A rc \in Composed :
            LET K == Contributing(rc[1], rc[2])
            IN  K # {} =>
                  Emitted(rc[1], rc[2]) =
                      Rendered(FileValue(blend[FirstTile(K)], rc[1], rc[2]))

C4_Witness ==
    /\ Ctrl.C.active /\ Ctrl.C.mode = BLEND_FIRST /\ Ctrl.C.sign = 0
    /\ ValueMode /\ ScaleOne /\ pc = "done" /\ n_blend = 2
    /\ \E rc \in Composed :
          /\ Contributing(rc[1], rc[2]) = {1, 2}
          /\ FileValue(blend[1], rc[1], rc[2]) # FileValue(blend[2], rc[1], rc[2])
          /\ Emitted(rc[1], rc[2]) = FileValue(blend[1], rc[1], rc[2])
    /\ \E rc \in Composed :
          /\ Covering(rc[1], rc[2]) = {1, 2}
          /\ Contributing(rc[1], rc[2]) = {2}
          /\ Emitted(rc[1], rc[2]) = FileValue(blend[2], rc[1], rc[2])

\* C5: without a sign filter every composed node with a contributing tile
\* is given, under -Cu, the largest and, under -Cl, the smallest of the
\* values of the contributing tiles, whatever their order in the list, and
\* under -Co the value of the last contributing tile of the list.
C5_ClobberUpperLowerLast ==
    (Ctrl.C.active /\ Ctrl.C.sign = 0) =>
        \A rc \in Composed :
            LET K == Contributing(rc[1], rc[2])
                V == ValuesAt(K, rc[1], rc[2])
            IN  K # {} =>
                  /\ Ctrl.C.mode = BLEND_UPPER =>
                        Emitted(rc[1], rc[2]) = Rendered(Highest(V))
                  /\ Ctrl.C.mode = BLEND_LOWER =>
                        Emitted(rc[1], rc[2]) = Rendered(Lowest(V))
                  /\ Ctrl.C.mode = BLEND_LAST =>
                        Emitted(rc[1], rc[2]) =
                            Rendered(FileValue(blend[LastTile(K)], rc[1], rc[2]))

C5_Witness ==
    /\ Ctrl.C.active /\ Ctrl.C.mode = BLEND_UPPER /\ Ctrl.C.sign = 0
    /\ ValueMode /\ ScaleOne /\ pc = "done" /\ n_blend = 2
    /\ \E rc \in Composed :
          /\ Contributing(rc[1], rc[2]) = {1, 2}
          /\ RLess(FileValue(blend[2], rc[1], rc[2]), FileValue(blend[1], rc[1], rc[2]))
          /\ Emitted(rc[1], rc[2]) = FileValue(blend[1], rc[1], rc[2])
    /\ \E rc \in Composed :
          /\ Contributing(rc[1], rc[2]) = {1, 2}
          /\ RLess(FileValue(blend[1], rc[1], rc[2]), FileValue(blend[2], rc[1], rc[2]))
          /\ Emitted(rc[1], rc[2]) = FileValue(blend[2], rc[1], rc[2])

\* The sign filter: +n lets values <= 0 pass, +p values >= 0.
Passes(v) == IF Ctrl.C.sign = -1 THEN RLeq(v, Rat(0)) ELSE RLeq(Rat(0), v)

\* The value the clobber mode picks among the tiles K.
Winner(K, r, c) ==
    IF Ctrl.C.mode = BLEND_FIRST THEN FileValue(blend[FirstTile(K)], r, c)
    ELSE IF Ctrl.C.mode = BLEND_LAST THEN FileValue(blend[LastTile(K)], r, c)
    ELSE IF Ctrl.C.mode = BLEND_UPPER THEN Highest(ValuesAt(K, r, c))
    ELSE Lowest(ValuesAt(K, r, c))

\* C6: under -C with a sign filter every composed node with a contributing
\* tile is given the value the mode picks among the contributing values
\* that pass the filter, or, when none passes, the value of the first
\* contributing tile; it counts as filled, with weight 1.
C6_SignFilterWinner ==
    (Ctrl.C.active /\ Ctrl.C.sign # 0) =>
        /\ n_fill = Cardinality({rc \in Composed : Contributing(rc[1], rc[2]) # {}})
        /\ \A rc \in Composed :
              LET K == Contributing(rc[1], rc[2])
                  P == {k \in K : Passes(FileValue(blend[k], rc[1], rc[2]))}
              IN  K # {} =>
                    Emitted(rc[1], rc[2]) =
                        Rendered(IF P # {} THEN Winner(P, rc[1], rc[2])
                                 ELSE FileValue(blend[FirstTile(K)], rc[1], rc[2]))

(***************************************************************************)
(* Blending.                                                               *)
(***************************************************************************)
\* The weight of tile B at output row r, column c.
EffWeight(B, r, c) ==
    NodeWeight([B EXCEPT !.wt_y = RowWeight(B, r, XYOff2(Grid.registration))],
               PCol(B, c, wrap_x), XYOff2(Grid.registration))

\* The sums of w and of w * z over the contributing tiles among 1..k.
RECURSIVE SumW(_, _, _)
SumW(k, r, c) ==
    IF k = 0 THEN Rat(0)
    ELSE RAdd(SumW(k - 1, r, c),
              IF k \in Contributing(r, c) THEN EffWeight(blend[k], r, c) ELSE Rat(0))

RECURSIVE SumWZ(_, _, _)
SumWZ(k, r, c) ==
    IF k = 0 THEN Rat(0)
    ELSE RAdd(SumWZ(k - 1, r, c),
              IF k \in Contributing(r, c)
              THEN RMul(EffWeight(blend[k], r, c), FileValue(blend[k], r, c))
              ELSE Rat(0))

\* C7: blending: every composed node with a contributing tile is given
\* sum (w z) / sum (w) times the scale in mode Value (0 when the weights
\* sum to 0), sum (w) in mode WeightOnly and sum (w z) in mode
\* WeightTimesValue, the sums being over the contributing tiles.
C7_OutputModes ==
    ~Ctrl.C.active =>
        \A rc \in Composed :
            LET sw  == SumW(n_blend, rc[1], rc[2])
                swz == SumWZ(n_blend, rc[1], rc[2])
                avg == IF sw = Rat(0) THEN Rat(0) ELSE RDiv(swz, sw)
            IN  Contributing(rc[1], rc[2]) # {} =>
                  Emitted(rc[1], rc[2]) =
                      IF WeightOnly THEN sw
                      ELSE IF WeightTimesValue THEN swz
                      ELSE IF Ctrl.Z.active THEN RMul(avg, Ctrl.Z.scale)
                      ELSE avg

(***************************************************************************)
(* The order of the scan and the life of the tiles.                        *)
(***************************************************************************)
\* Every tile in use has been wound to output row r: a tile without that
\* row is marked outside and is not open, a tile with that row holds it in
\* its row buffer and, if it is a file, is open just past it.
Synchronised(r) ==
    \A k \in 1..n_blend :
        LET B == blend[k]
        IN  ~B.ignore =>
              IF r < B.out_j0 \/ r > B.out_j1
              THEN B.outside /\ ~B.open
              ELSE /\ ~B.outside
                   /\ B.z = TileRow(B.seed, r - B.out_j0, B.G.header.n_columns)
                   /\ B.memory \/ (B.open /\ B.RbR.row = r - B.out_j0 + 1)

\* The rows written so far are rows 0, 1, ... in this order.
RowsInOrder ==
    /\ \A i \in 1..Len(put) : put[i].row = i - 1
    /\ Len(put) <= Grid.n_rows
    /\ pc = "done" => Len(put) = Grid.n_rows

\* A row is written when all its columns are composed and the tiles are
\* at that row, and it is the row after the last one written.
EmitStep ==
    put' # put =>
        /\ put' = Append(put, [row |-> row, z |-> z])
        /\ row = Len(put)
        /\ col = Grid.n_columns
        /\ Synchronised(row)

\* The columns of a row are composed from 0 upwards, one at a time, with
\* the tiles at that row.
ColumnStep ==
    col' # col =>
        \/ col' = 0 /\ Synchronised(row)'
        \/ /\ col' = col + 1 /\ col < Grid.n_columns
           /\ Synchronised(row)
           /\ \A c \in 1..Grid.n_columns : c # col + 1 => z'[c] = z[c]

\* How far the scan has come: every step of the program takes it further,
\* and it is never more than (n_columns + 2) * n_rows + 1.
Progress ==
    (Grid.n_columns + 2) * row
    + (IF pc = "node" THEN 1 + col
       ELSE IF pc = "put" THEN 1 + Grid.n_columns
       ELSE IF pc = "done" THEN 1
       ELSE 0)

\* The condition under which the program has a next step to take: the
\* guards of SyncRows, ComposeNode, PutRow and FreeBlend.
StepReady ==
    \/ pc = "sync" /\ row < Grid.n_rows
    \/ pc = "node" /\ col < Grid.n_columns
    \/ pc = "put"
    \/ pc = "free"

\* C8: the rows are written in the order 0, 1, ..., n_rows - 1, each
\* once; a row is written only after every tile in use has been wound to
\* it and its columns 0 .. n_columns - 1 have been composed in increasing
\* order; and the scan comes to its end: until it is done there is a next
\* step, and every step takes it further along a bounded course.
C8_RowOrderAndTermination ==
    /\ []RowsInOrder
    /\ [](pc = "done" \/ StepReady)
    /\ [](Progress <= (Grid.n_columns + 2) * Grid.n_rows + 1)
    /\ [][EmitStep /\ ColumnStep /\ Progress' > Progress]_vars

C8_Witness ==
    /\ pc = "done" /\ n_blend = 2
    /\ Len(put) = NY + 1
    /\ put[NY + 1].row = NY
    /\ blend[1].n_close = 1 /\ blend[1].out_j1 < NY
    /\ blend[2].memory /\ blend[2].out_j0 > 0

\* Tile B has no row of the output grid.
NoRowInRange(B) == B.out_j1 < 0 \/ B.out_j0 > Grid.n_rows - 1 \/ B.out_j1 < B.out_j0

\* C9: a tile that is ignored, or whose rows out_j0 .. out_j1 hold no row
\* of the output, is never opened; every tile is opened at most once and
\* closed at most once, and never closed before it is opened.
C9_OpenCloseOnce ==
    \A k \in 1..n_blend :
        LET B == blend[k]
        IN  /\ (B.ignore \/ NoRowInRange(B)) => B.n_open = 0
            /\ B.n_open <= 1
            /\ B.n_close <= 1
            /\ B.n_close <= B.n_open
            /\ (B.open /\ pc # "done") => (B.n_open = 1 /\ B.n_close = 0)

C9_Witness ==
    /\ pc = "free" /\ n_blend = 2
    /\ ~blend[1].ignore /\ NoRowInRange(blend[1]) /\ blend[1].n_open = 0
    /\ ~blend[2].memory /\ blend[2].n_open = 1 /\ blend[2].n_close = 1

\* C10: the temporary file of a tile that was resampled or reformatted
\* (delete is set) is never removed twice, and has been removed once when
\* the run is over.
C10_TempFileRemovedOnce ==
    \A k \in 1..n_blend :
        blend[k].delete =>
            /\ blend[k].n_remove <= 1
            /\ pc = "done" => blend[k].n_remove = 1

(***************************************************************************)
(* Failing collaborators.                                                  *)
(***************************************************************************)
\* Some call of the kinds in calls has failed.
HasFailed(calls) == \E x \in failed : x.call \in calls

\* C11: when the run has ended on a failed resample or reformat, a failed
\* re-read of the header, or a failed open or seek, no tile has its file
\* open and every temporary file that was written has been removed.
C11_AbortCleansUp ==
    (pc = "abort" /\ HasFailed({"module", "reread", "open", "seek"})) =>
        \A k \in 1..Len(blend) :
            /\ ~blend[k].G.fp
            /\ blend[k].temp => blend[k].n_remove = 1

\* C12: when opening, seeking or reading failed for some tile at row r,
\* the run has ended with an error, no node of row r has been composed and
\* row r has not been written.
C12_FailedRefreshAborts ==
    \A x \in failed :
        x.call \in {"open", "seek", "read"} =>
            /\ pc = "abort"
            /\ status # GMT_NOERROR
            /\ \A rc \in Composed : rc[1] # x.row
            /\ Len(put) <= x.row

\* C13: grdblend_init_blend_job returns the number of tiles when it has
\* reached its end and a negative value when a call failed, and the row
\* loop is never entered after such a failure.
C13_RegistryReturn ==
    /\ (pc = "returned" /\ ~BlendIsNull) => status = Len(L)
    /\ (pc = "returned" /\ BlendIsNull) => status < 0
    /\ BlendIsNull => pc \in {"list", "load", "tile", "returned", "abort"}

(***************************************************************************)
(* The geometry of a tile.                                                 *)
(***************************************************************************)
\* Lines 516-539 have run for tile B (B.RbR is allocated right before the
\* indices are computed and released only when the tile is let go).
GeometryDone(B) == ~B.ignore /\ (B.RbR.alloc \/ B.n_rbrfree > 0)

\* The inner region of B lies within the region of its file.
InnerWithinOuter(B) ==
    LET t == B.G.header.wesn
    IN  /\ t.w <= B.wesn.w /\ B.wesn.w <= B.wesn.e /\ B.wesn.e <= t.e
        /\ t.s <= B.wesn.s /\ B.wesn.s <= B.wesn.n /\ B.wesn.n <= t.n

SameRegistration(B) == B.G.header.registration = Grid.registration

\* C14 as claimed: every tile in use whose inner region lies within its
\* outer region has out_i0 <= in_i0 <= in_i1 <= out_i1 and
\* out_j0 <= in_j0 <= in_j1 <= out_j1.
C14_IndexOrder ==
    \A k \in 1..Len(blend) :
        LET B == blend[k]
        IN  (GeometryDone(B) /\ InnerWithinOuter(B)) =>
                /\ B.out_i0 <= B.in_i0 /\ B.in_i0 <= B.in_i1 /\ B.in_i1 <= B.out_i1
                /\ B.out_j0 <= B.in_j0 /\ B.in_j0 <= B.in_j1 /\ B.in_j1 <= B.out_j1

\* C14 amended: every tile in use that has the registration of the output
\* grid and whose inner region lies within its outer region has
\* out_i0 - 1 <= in_i0 < in_i1 <= out_i1 + 1 and
\* out_j0 - 1 <= in_j0 < in_j1 <= out_j1 + 1.
C14_IndexOrderWithMargin ==
    \A k \in 1..Len(blend) :
        LET B == blend[k]
        IN  (GeometryDone(B) /\ InnerWithinOuter(B) /\ SameRegistration(B)) =>
                /\ B.out_i0 - 1 <= B.in_i0 /\ B.in_i0 < B.in_i1
                /\ B.in_i1 <= B.out_i1 + 1
                /\ B.out_j0 - 1 <= B.in_j0 /\ B.in_j0 < B.in_j1
                /\ B.in_j1 <= B.out_j1 + 1

C14_Witness ==
    /\ pc = "node" /\ n_blend = 2
    /\ Grid.registration = GMT_GRID_PIXEL_REG
    /\ GeometryDone(blend[1]) /\ InnerWithinOuter(blend[1])
    /\ blend[1].in_i0 = blend[1].out_i0 - 1 /\ blend[1].in_i1 = blend[1].out_i1 + 1
    /\ GeometryDone(blend[2]) /\ InnerWithinOuter(blend[2])
    /\ blend[2].in_i0 = blend[2].out_i0 /\ blend[2].in_j1 = blend[2].out_j1 + 1

\* Some edge of the inner region of B is the edge of its file.
ZeroTaper(B) == B.wxl = 0 \/ B.wxr = 0 \/ B.wyu = 0 \/ B.wyd = 0

RECURSIVE SumWeight(_, _, _)
SumWeight(k, r, c) ==
    IF k = 0 THEN Rat(0)
    ELSE RAdd(SumWeight(k - 1, r, c),
              IF k \in Contributing(r, c) THEN blend[k].weight ELSE Rat(0))

\* C16: a tile that is not inverted has, at every row strictly between
\* in_j0 and in_j1 it is wound to, the row weight `weight', and at every
\* composed node strictly inside its inner index range the weight
\* `weight'; a node whose contributing tiles are all of this kind is given
\* the sum of their weights in mode WeightOnly.
C16_InnerWeightIsScalar ==
    /\ \A k \in 1..n_blend :
          LET B == blend[k]
          IN  (~B.ignore /\ ~B.invert) =>
                /\ (pc \in {"node", "put"} /\ ~B.outside /\ B.in_j0 < row
                       /\ row < B.in_j1) => B.wt_y = B.weight
                /\ \A rc \in Composed :
                      (Covers(B, rc[1], rc[2]) /\ StrictlyInside(B, rc[1], rc[2])) =>
                          EffWeight(B, rc[1], rc[2]) = B.weight
    /\ (~Ctrl.C.active /\ WeightOnly) =>
          \A rc \in Composed :
              (/\ Contributing(rc[1], rc[2]) # {}
               /\ \A k \in Contributing(rc[1], rc[2]) :
                     ~blend[k].invert /\ StrictlyInside(blend[k], rc[1], rc[2])) =>
                  Emitted(rc[1], rc[2]) = SumWeight(n_blend, rc[1], rc[2])

C16_Witness ==
    /\ pc = "put" /\ row = 0 /\ n_blend = 2 /\ WeightOnly
    /\ blend[1].weight = Rat(2) /\ blend[2].weight = Rat(1)
    /\ ~blend[1].invert /\ ~blend[2].invert
    /\ Contributing(0, 1) = {1, 2}
    /\ StrictlyInside(blend[1], 0, 1) /\ StrictlyInside(blend[2], 0, 1)
    /\ blend[2].in_i0 = blend[2].out_i0
    /\ Emitted(0, 1) = Rat(3)
    /\ Emitted(0, 0) # Rat(3)

(***************************************************************************)
(* The registry: what became of the records and files of the job.          *)
(***************************************************************************)
\* Tile k has been through lines 399-564 and is in use.
Registered(k) == k <= Len(L) /\ k <= Len(blend) /\ GeometryDone(blend[k])

\* C17: a tile in use that needs no resampling has been sent to grdconvert
\* (its file replaced by a temporary one) if and only if its own format is
\* one that cannot be read row by row, whatever the formats of the other
\* tiles of the list.
C17_OwnFormatDecides ==
    \A k \in 1..Len(blend) :
        (Registered(k) /\ L[k].do_sample = 0) =>
            (blend[k].delete <=> L[k].type \in not_supported_formats)

(***************************************************************************)
(* The output region made from the tiles.                                  *)
(***************************************************************************)
\* The regions of the files of the job.
TileRegions == {job.tiles[k].wesn : k \in 1..Len(job.tiles)}

\* C18: the region made from the tiles has the least west and south of the
\* tiles, reaches east and north at least as far as every tile, and its
\* width is the least whole number of x-increments, its height the least
\* whole number of y-increments, that does so: every tile lies within it.
C18_DerivedRegionContains ==
    pc = "derived" =>
        LET h == Grid.wesn
        IN  /\ \A t \in TileRegions :
                  h.w <= t.w /\ t.e <= h.e /\ h.s <= t.s /\ t.n <= h.n
            /\ \E t \in TileRegions : h.w = t.w
            /\ \E t \in TileRegions : h.s = t.s
            /\ (h.e - h.w) % Grid.inc[1] = 0
            /\ \E t \in TileRegions : h.e - t.e < Grid.inc[1]
            /\ (h.n - h.s) % Grid.inc[2] = 0
            /\ \E t \in TileRegions : h.n - t.n < Grid.inc[2]

(***************************************************************************)
(* The records of a blend file and the list made from them.                *)
(***************************************************************************)
\* The record names a region / a weight.
HasRegion(toks) == Len(toks) >= 1 /\ toks[1].kind = "region"

HasWeight(toks) == Len(toks) >= 1 /\ toks[Len(toks)].kind = "number"

\* Lines 344-347: the inner region the tile of list entry l is given.
InnerOf(l) == IF l.got_region THEN l.region ELSE l.t

\* C19: for every record parsed, the inner region is the region of the
\* file exactly when the record names no region (none or "-"), the weight
\* is 1 when the record names no weight and is the weight named otherwise.
C19_RecordDefaults ==
    ~job.cmd_line =>
        \A k \in 1..Len(L) :
            LET toks == job.records[k].toks
            IN  /\ (InnerOf(L[k]) = job.records[k].file.t) <=> ~HasRegion(toks)
                /\ ~HasWeight(toks) => L[k].weight = 1
                /\ HasWeight(toks) => L[k].weight = toks[Len(toks)].value

\* C20: every tile in use has a weight that is not negative and is the
\* absolute value of the weight of its list entry (of the weight its
\* record names, when it names one), and is inverted exactly when that
\* weight is negative; a tile named on the command line has weight 1, is
\* not inverted and has the region of its file for inner region.
C20_WeightSign ==
    \A k \in 1..Len(blend) :
        Registered(k) =>
            /\ ~RLess(blend[k].weight, Rat(0))
            /\ blend[k].weight = Rat(Abs(L[k].weight))
            /\ blend[k].invert <=> L[k].weight < 0
            /\ (~job.cmd_line /\ HasWeight(job.records[k].toks)) =>
                  LET v == job.records[k].toks[Len(job.records[k].toks)].value
                  IN  blend[k].weight = Rat(Abs(v)) /\ (blend[k].invert <=> v < 0)
            /\ job.cmd_line =>
                  /\ blend[k].weight = Rat(1)
                  /\ ~blend[k].invert
                  /\ blend[k].wesn = job.files[k].t

C20_Witness ==
    /\ pc = "sync" /\ ~job.cmd_line /\ Len(blend) = 2
    /\ Registered(1) /\ Registered(2)
    /\ job.records[1].toks = <<Number(-1)>>
    /\ blend[1].invert /\ blend[1].weight = Rat(1)
    /\ job.records[2].toks = <<Dash, Number(2)>>
    /\ ~blend[2].invert /\ blend[2].weight = Rat(2)

(***************************************************************************)
(* The screening of tiles.                                                 *)
(***************************************************************************)
\* The ranges [w, e] and [lo, hi] share a node (node registration) or a
\* stretch of positive length (pixel registration).
RangesOverlap(w, e, lo, hi, registration) ==
    IF registration = GMT_GRID_NODE_REG THEN w <= hi /\ e >= lo
    ELSE w < hi /\ e > lo

\* The whole turns a longitude range is moved by.
Turns == -4..4

\* C21: for a geographic tile and output, neither global, the check of the
\* header marks the tile ignored exactly when no move of its longitude
\* range by whole turns overlaps the longitude range of the output;
\* otherwise the range left behind is the range of the file moved by whole
\* turns (so of the same width) and overlaps the output.
C21_WrapIntoOverlap ==
    (pc = "checked" /\ job.lon_only) =>
        LET t0 == job.entry.t
            t1 == blend[1].G.header.wesn
            h  == Grid
        IN  /\ blend[1].ignore <=>
                  ~\E k \in Turns :
                      RangesOverlap(t0.w + k * P360, t0.e + k * P360, h.wesn.w,
                                    h.wesn.e, h.registration)
            /\ ~blend[1].ignore =>
                  /\ \E k \in Turns : /\ t1.w = t0.w + k * P360
                                      /\ t1.e = t0.e + k * P360
                  /\ RangesOverlap(t1.w, t1.e, h.wesn.w, h.wesn.e, h.registration)

\* The region t of a file overlaps the output region, in y and, moved by
\* whole turns when x is a longitude, in x.
OuterOverlaps(t, h, x_is_lon) ==
    /\ RangesOverlap(t.s, t.n, h.wesn.s, h.wesn.n, h.registration)
    /\ \E k \in (IF x_is_lon THEN Turns ELSE {0}) :
          RangesOverlap(t.w + k * P360, t.e + k * P360, h.wesn.w, h.wesn.e,
                        h.registration)

\* C22: a tile is ignored only if the region of its file does not overlap
\* the output region; where its inner region lies plays no part.
C22_IgnoredOnlyOutside ==
    (pc = "screened" /\ blend[1].ignore) =>
        ~OuterOverlaps(job.entry.t, Grid, job.x_is_lon)

(***************************************************************************)
(* The tiles along the scan.                                               *)
(***************************************************************************)
\* grdblend_sync_input_rows has run for the current row.
RowSynced == pc \in {"node", "put"}

InRowRange(B, r) == B.out_j0 <= r /\ r <= B.out_j1

\* C23: after the tiles have been wound to row r, a tile in use that is
\* read from a file is open exactly when r is one of its rows, and a tile
\* in use is flagged outside exactly when r is not; a tile that was opened
\* and has no row r has been closed: its file closed, its row buffer and
\* row-by-row structure freed once, its temporary file removed once.
C23_OpenIffInRange ==
    RowSynced =>
        \A k \in 1..n_blend :
            LET B == blend[k]
            IN  ~B.ignore =>
                  /\ ~B.memory => ((B.open /\ B.G.fp) <=> InRowRange(B, row))
                  /\ ~B.memory => (B.open <=> B.G.fp)
                  /\ B.outside <=> ~InRowRange(B, row)
                  /\ (B.n_open = 1 /\ ~InRowRange(B, row)) =>
                        /\ B.n_close = 1 /\ ~B.G.fp /\ ~B.G.live
                        /\ ~B.z_alloc /\ B.n_zfree = 1
                        /\ ~B.RbR.alloc /\ B.n_rbrfree = 1
                        /\ B.delete => B.n_remove = 1

C23_Witness ==
    /\ pc = "node" /\ row = NY /\ n_blend = 2
    /\ Grid.registration = GMT_GRID_NODE_REG
    /\ blend[1].delete /\ blend[1].n_open = 1 /\ blend[1].n_close = 1
    /\ blend[1].outside /\ blend[1].n_remove = 1 /\ ~blend[1].z_alloc
    /\ ~blend[2].memory /\ blend[2].out_j0 > 0
    /\ blend[2].open /\ ~blend[2].outside

\* C24: when a run without failures is over, no tile in use has its file
\* open, and the row buffer and the row-by-row structure of every tile that
\* was given them (lines 516 and 553) have been freed, each once, whether
\* the tile was still open at the last row, was closed before, is held in
\* memory or was never reached by the scan; an ignored tile holds neither.
C24_AllReleased ==
    /\ \A k \in 1..n_blend : blend[k].n_zfree <= 1 /\ blend[k].n_rbrfree <= 1
    /\ pc = "done" =>
          \A k \in 1..n_blend :
              LET B == blend[k]
              IN  /\ ~B.ignore => ~B.G.fp
                  /\ ~B.z_alloc /\ ~B.RbR.alloc
                  /\ ~B.ignore => (B.n_zfree = 1 /\ B.n_rbrfree = 1)

\* C25: after the rows are synchronised for output row r, the row buffer of
\* every tile in use whose row range contains r holds row r - out_j0 of the
\* tile, whether the tile is held in memory or read from its file; a file
\* tile was opened once, at its first row inside the output, and stands one
\* row past the row it has delivered.
C25_BufferHoldsTileRow ==
    RowSynced =>
        \A k \in 1..n_blend :
            LET B == blend[k]
            IN  (~B.ignore /\ InRowRange(B, row)) =>
                  /\ B.z_alloc
                  /\ B.z = [j \in 1..B.G.header.n_columns |->
                               TileValue(B.seed, row - B.out_j0, j - 1)]
                  /\ ~B.memory => /\ B.n_open = 1
                                  /\ B.RbR.row = row - B.out_j0 + 1

\* A memory tile and a file tile that starts north of the output, both at a
\* row after the first.
C25_Witness ==
    /\ pc = "node" /\ row = 1 /\ n_blend = 2
    /\ blend[1].memory /\ ~blend[1].ignore /\ InRowRange(blend[1], row)
    /\ ~blend[2].memory /\ ~blend[2].ignore /\ blend[2].out_j0 < 0
    /\ InRowRange(blend[2], row) /\ blend[2].RbR.row = 2 - blend[2].out_j0

\* The whole turns k that put output column c on a column of tile B.
TurnsInto(B, c) ==
    {k \in Turns : B.out_i0 <= c + k * nx_360 /\ c + k * nx_360 <= B.out_i1}

Largest(S) == CHOOSE k \in S : \A m \in S : m <= k

\* C26: on a periodic x axis a tile in use has a column for output column c
\* iff some whole number k of turns puts c + k * nx_360 in out_i0..out_i1,
\* and the column read is c + k * nx_360 - out_i0 for the largest such k; on
\* an axis that is not periodic, iff out_i0 <= c <= out_i1, and the column
\* read is c - out_i0.
C26_PeriodicColumn ==
    RowSynced =>
        \A k \in 1..n_blend : \A c \in 0..(Grid.n_columns - 1) :
            LET B == blend[k]
                S == IF wrap_x THEN TurnsInto(B, c) ELSE TurnsInto(B, c) \cap {0}
            IN  ~B.ignore =>
                  /\ ~OutsideX(B, c, wrap_x) <=> S # {}
                  /\ S # {} => PCol(B, c, wrap_x) - B.out_i0
                                   = c + Largest(S) * nx_360 - B.out_i0

\* C27: the region handed to the resampler for a tile that is out of phase
\* lies within the tile and within the output region, is not inverted, and
\* each of its edges is the origin of the output plus a whole number of
\* output increments.
C27_PhaseRegionFits ==
    pc = "phased" =>
        LET t == job.tile.wesn
            h == Grid.wesn
        IN  /\ t.w <= wesn.w /\ wesn.w <= wesn.e /\ wesn.e <= t.e
            /\ h.w <= wesn.w /\ wesn.e <= h.e
            /\ t.s <= wesn.s /\ wesn.s <= wesn.n /\ wesn.n <= t.n
            /\ h.s <= wesn.s /\ wesn.n <= h.n
            /\ (wesn.w - h.w) % Grid.inc[1] = 0
            /\ (wesn.e - h.w) % Grid.inc[1] = 0
            /\ (wesn.s - h.s) % Grid.inc[2] = 0
            /\ (wesn.n - h.s) % Grid.inc[2] = 0

\* The tiles whose row buffer the loop of lines 1019-1066 reads for output
\* column c.
ReadAt(c) ==
    {k \in 1..n_blend :
        ~blend[k].ignore /\ ~blend[k].outside /\ ~OutsideX(blend[k], c, wrap_x)}

\* C28: while a row is composed, the row buffer of a tile is read only if
\* the tile is in use, its row range contains the current row and the
\* buffer is allocated and holds the tile's row for the current output row,
\* and only at a local column kk with 0 <= kk <= out_i1 - out_i0.
C28_ReadsOnlyFreshRows ==
    RowSynced =>
        \A c \in 0..(Grid.n_columns - 1) : \A k \in ReadAt(c) :
            LET B == blend[k]
                kk == PCol(B, c, wrap_x) - B.out_i0
            IN  /\ ~B.ignore /\ InRowRange(B, row)
                /\ B.z_alloc /\ B.n_zfree = 0 /\ ~B.stale
                /\ B.z = TileRow(B.seed, row - B.out_j0, B.G.header.n_columns)
                /\ 0 <= kk /\ kk <= B.out_i1 - B.out_i0
                /\ (kk + 1) \in DOMAIN B.z

\* At a row after the first one tile is read and another, already closed
\* and released, is passed over.
C28_Witness ==
    /\ pc = "node" /\ row >= 1 /\ n_blend = 2
    /\ ReadAt(col) = {2}
    /\ ~blend[1].ignore /\ blend[1].outside /\ blend[1].n_zfree = 1
    /\ blend[2].RbR.row >= 2

\* The composed nodes that have a contributing tile and whose weights sum
\* to exactly 0.
ZeroWeightNodes ==
    {rc \in Composed : /\ Contributing(rc[1], rc[2]) # {}
                       /\ SumW(n_blend, rc[1], rc[2]) = Rat(0)}

\* C29: blending in mode Value: a node with a contributing tile whose
\* weights sum to exactly 0 is given 0 (times the scale): a number, never
\* the no-data value; it is counted as filled and the extrema of the output
\* take it in.
C29_ZeroWeightGivesZero ==
    (~Ctrl.C.active /\ ValueMode) =>
        /\ \A rc \in ZeroWeightNodes :
              /\ Emitted(rc[1], rc[2]) =
                     (IF Ctrl.Z.active THEN RMul(Rat(0), Ctrl.Z.scale) ELSE Rat(0))
              /\ ~IsNaN(Emitted(rc[1], rc[2]))
              /\ IsNaN(no_data_f) => Emitted(rc[1], rc[2]) # no_data_f
              /\ RLeq(z_min, Rat(0)) /\ RLeq(Rat(0), z_max)
        /\ n_fill >= Cardinality(ZeroWeightNodes)
        /\ n_empty = Cardinality({rc \in Composed : Contributing(rc[1], rc[2]) = {}})

\* A run over one inverted tile: inside its inner region every node where
\* the tile has a value has the weight sum 0 and is given 0.
C29_Witness ==
    /\ pc = "done" /\ ~Ctrl.C.active /\ ValueMode /\ n_blend = 1
    /\ blend[1].invert
    /\ ZeroWeightNodes # {}
    /\ n_fill = Cardinality(ZeroWeightNodes)
    /\ \E rc \in ZeroWeightNodes :
          /\ StrictlyInside(blend[1], rc[1], rc[2])
          /\ FileValue(blend[1], rc[1], rc[2]) # Rat(0)
          /\ Emitted(rc[1], rc[2]) = Rat(0)

\* C30: when grdblend_sync_input_rows has returned success for a row, every
\* tile in use has been taken through that row, also when GMT_Destroy_Data
\* failed for an earlier tile of the list: the tile is flagged outside iff
\* the row is not in its row range and, if the row is in range, its buffer
\* holds its row for this output row (no read having failed).
C30_SuccessMeansAllSynchronised ==
    (RowSynced /\ ~HasFailed({"read"})) =>
        \A k \in 1..n_blend :
            LET B == blend[k]
            IN  ~B.ignore =>
                  /\ B.outside <=> ~InRowRange(B, row)
                  /\ InRowRange(B, row) =>
                        B.z = TileRow(B.seed, row - B.out_j0, B.G.header.n_columns)

====
